---- MODULE Spec2Model ----
(***************************************************************************)
(* A model of the OpenAPI generator of pixie-cli                           *)
(* (internal/cli/pixie/generate_cmd/openapi).                               *)
(*                                                                         *)
(* Go strings are modelled as sequences of tokens whose concatenation is   *)
(* the string ("a_models.Feed" is <<"a", "_", "models", ".", "Feed">>), so  *)
(* that strings.Split, strings.Contains, strings.TrimPrefix and friends    *)
(* are computed on the text and not assumed.  The empty string is <<>>.    *)
(***************************************************************************)
EXTENDS Integers, Sequences, FiniteSets, TLC

VARIABLES
    models,      \* the Go files under the models root, in filepath.Walk order
    processed,   \* TypeResolver.processed (the set of keys mapped to true)
    schemas,     \* TypeResolver.schemas
    overflow,    \* TRUE once a resolver call chain outgrew the goroutine stack
    lastCall,    \* the latest ResolveType call: name, returned schema, table after
    prevCall,    \* the ResolveType call before it
    nCalls,      \* number of ResolveType calls made on this resolver
    chain,       \* the middleware arguments of a route, as expressions
    security,    \* what extractSecurity returned for the rendered chain
    secDone,     \* extractSecurity has returned
    groupPaths,      \* parseContext.groupPaths
    groupMiddleware, \* parseContext.groupMiddleware
    variables,       \* parseContext.variables
    endpoints,       \* the EndpointInfo list of parseControllerFile so far
    visited,         \* the statements of the controller file walked so far
    analyzerCtx,        \* the analyzerContext of the controller directory
    basicEndpoints,     \* the raw endpoints of the controller file last analysed
    enhancedEndpoints,  \* what analyzeControllerFile returned, not yet added
    added,              \* the EndpointSpecs AddEndpoint has been called with
    openapi,            \* the OpenAPISpec under construction
    phase,              \* the step generateOpenAPISpec is at
    registryLayers,     \* BusinessLayerRegistry.layers
    lookup,             \* the latest LookupMethodByFieldType call, if any
    configFiles,        \* the config files of the current directory
    loaded,             \* what LoadConfig returned, if it has
    features,           \* the features map of ResolveFeatureDependencies
    inputFeatures,      \* the map as it was passed in
    pending,            \* keys of dependencies the current pass has yet to range over
    depAdded,           \* the local `added` of the current pass
    resolving,          \* where ResolveFeatureDependencies is
    again,              \* the call was made on the result of a call
    cleaned,            \* the latest cleanTypeName call, if any
    dirFiles,           \* the Go files of a controller directory, in os.ReadDir order
    symbolTable,        \* analyzerContext.functions
    parsedDir,          \* parseDirectoryFiles has returned
    handlerSpecs        \* the raw endpoints enhanced so far, each with its spec

resolverVars == <<models, processed, schemas, overflow, lastCall, prevCall, nCalls>>
securityVars == <<chain, security, secDone>>
routeVars == <<groupPaths, groupMiddleware, variables, endpoints, visited>>
assembleVars == <<analyzerCtx, basicEndpoints, enhancedEndpoints, added, openapi, phase>>
registryVars == <<registryLayers, lookup>>
configVars == <<configFiles, loaded>>
featureVars == <<features, inputFeatures, pending, depAdded, resolving, again>>
sharedVars == <<configVars, featureVars>>
symbolVars == <<dirFiles, symbolTable, parsedDir, handlerSpecs>>
helperVars == <<cleaned, symbolVars>>
vars ==
    <<resolverVars, securityVars, routeVars, assembleVars, registryVars, sharedVars,
      helperVars>>

----------------------------------------------------------------------------
(* Bounds of the model.                                                    *)

\* Nested ResolveType calls, each parsing a declaration, that fit on the stack;
\* deeper recursion is a stack overflow.
MaxDepth == 3
\* ResolveType calls made by a client of one TypeResolver.
MaxCalls == 2

----------------------------------------------------------------------------
(* package strings, on token sequences.                                    *)

Str(tok) == <<tok>>

HasPrefix(s, p) == Len(s) >= Len(p) /\ SubSeq(s, 1, Len(p)) = p
HasSuffix(s, p) == Len(s) >= Len(p) /\ SubSeq(s, Len(s) - Len(p) + 1, Len(s)) = p
TrimPrefix(s, p) == IF HasPrefix(s, p) THEN SubSeq(s, Len(p) + 1, Len(s)) ELSE s
TrimSuffix(s, p) == IF HasSuffix(s, p) THEN SubSeq(s, 1, Len(s) - Len(p)) ELSE s
\* strings.Contains(s, tok) for a one-token needle.
Contains(s, tok) == \E i \in 1..Len(s) : s[i] = tok
\* strings.Index / strings.LastIndex, 1-based; 0 stands for Go's -1.
Index(s, tok) == IF Contains(s, tok) THEN CHOOSE i \in 1..Len(s) : s[i] = tok /\ \A j \in 1..(i - 1) : s[j] # tok ELSE 0
LastIndex(s, tok) == IF Contains(s, tok) THEN CHOOSE i \in 1..Len(s) : s[i] = tok /\ \A j \in (i + 1)..Len(s) : s[j] # tok ELSE 0

RECURSIVE Split(_, _)
\* strings.Split(s, sep) for a one-token separator: always at least one part.
Split(s, sep) ==
    IF ~Contains(s, sep) THEN <<s>>
    ELSE LET i == Index(s, sep)
         IN  <<SubSeq(s, 1, i - 1)>> \o Split(SubSeq(s, i + 1, Len(s)), sep)

RECURSIVE Join(_, _)
\* strings.Join(parts, sep).
Join(parts, sep) ==
    IF Len(parts) = 0 THEN <<>>
    ELSE IF Len(parts) = 1 THEN parts[1]
    ELSE parts[1] \o sep \o Join(Tail(parts), sep)

Last(seq) == seq[Len(seq)]

----------------------------------------------------------------------------
(* SchemaSpec (schema.go).  Every field is always present: "" and <<>> are  *)
(* Go's zero values, Items and AdditionalProperties hold zero or one schema.*)

SchemaSpec0 ==
    [Type |-> "", Format |-> "", Description |-> <<>>, Ref |-> <<>>,
     Properties |-> <<>>, Required |-> <<>>, Items |-> <<>>, Enum |-> <<>>,
     AdditionalProperties |-> <<>>]

TypeSchema(t) == [SchemaSpec0 EXCEPT !.Type = t]
TypeFormatSchema(t, f) == [SchemaSpec0 EXCEPT !.Type = t, !.Format = f]

RefPrefix == <<"#", "/", "components", "/", "schemas", "/">>
\* fmt.Sprintf("#/components/schemas/%s", cleanName)
RefSchema(cleanName) == [SchemaSpec0 EXCEPT !.Ref = RefPrefix \o cleanName]

----------------------------------------------------------------------------
(* The model declarations read by the resolver (go/ast, as far as schema.go *)
(* looks at it).                                                            *)
(*   file  : [dir, decls, consts]   one parsed Go file of package dir `dir` *)
(*   decl  : [name, kind, ...]      kind "struct" | "ident" | "selector" |  *)
(*                                       "unsupported"                      *)
(*   field : [json, validate, doc, type]   the struct tags, already looked  *)
(*                                       up by key ("" when absent)         *)
(*   type expression : [k |-> "Ident", name] | [k |-> "Sel", x, sel] |      *)
(*        [k |-> "Array", elt] | [k |-> "Map", value] | [k |-> "Star", x] | *)
(*        [k |-> "Other"]                                                   *)

Ident(name) == [k |-> "Ident", name |-> name]
Sel(x, sel) == [k |-> "Sel", x |-> x, sel |-> sel]
ArrayOf(elt) == [k |-> "Array", elt |-> elt]
MapOf(value) == [k |-> "Map", value |-> value]
StarOf(x) == [k |-> "Star", x |-> x]
OtherType == [k |-> "Other"]

\* TypeResolver.resolveBuiltInType
resolveBuiltInType(typeName) ==
    IF typeName = <<"string">> THEN TypeSchema("string")
    ELSE IF typeName \in {<<"int">>, <<"int8">>, <<"int16">>, <<"int32">>, <<"int64">>}
        THEN TypeFormatSchema("integer", "int64")
    ELSE IF typeName \in {<<"uint">>, <<"uint8">>, <<"uint16">>, <<"uint32">>, <<"uint64">>}
        THEN TypeFormatSchema("integer", "uint64")
    ELSE IF typeName = <<"float32">> THEN TypeFormatSchema("number", "float")
    ELSE IF typeName = <<"float64">> THEN TypeFormatSchema("number", "double")
    ELSE IF typeName = <<"bool">> THEN TypeSchema("boolean")
    ELSE IF typeName = <<"object">> THEN TypeSchema("object")
    ELSE IF typeName \in {<<"time", ".", "Time">>, <<"Time">>}
        THEN TypeFormatSchema("string", "date-time")
    ELSE IF typeName \in {<<"uid", ".", "UID">>, <<"UID">>}
        THEN TypeFormatSchema("string", "uuid")
    ELSE SchemaSpec0

\* TypeResolver.mapUnderlyingTypeToOpenAPI
mapUnderlyingTypeToOpenAPI(goType) ==
    IF goType = <<"string">> THEN "string"
    ELSE IF goType \in {<<"int">>, <<"int8">>, <<"int16">>, <<"int32">>, <<"int64">>,
                        <<"uint">>, <<"uint8">>, <<"uint16">>, <<"uint32">>, <<"uint64">>}
        THEN "integer"
    ELSE IF goType \in {<<"float32">>, <<"float64">>} THEN "number"
    ELSE IF goType = <<"bool">> THEN "boolean"
    ELSE "string"

RECURSIVE cleanTypeName(_)
\* TypeResolver.cleanTypeName
cleanTypeName(typeName) ==
    LET start == Index(typeName, "[")
        end == LastIndex(typeName, "]")
        parts == Split(typeName, ".")
    IN  IF Contains(typeName, "[") /\ start # 0 /\ end # 0 /\ end > start
        THEN cleanTypeName(TrimPrefix(SubSeq(typeName, start + 1, end - 1), <<"[", "]">>))
        ELSE IF Len(parts) > 1 THEN Last(parts) ELSE typeName

\* TypeResolver.mapPackageNameToDir
mapPackageNameToDir(pkgName) ==
    LET parts == Split(pkgName, "_")
    IN  IF Len(parts) > 1 /\ Last(parts) = <<"models">>
        THEN Join(SubSeq(parts, 1, Len(parts) - 1), <<"_">>)
        ELSE pkgName

\* TypeResolver.findGoFiles: the files under modelsDir/pkgDir, or all of them
\* under modelsDir itself (pkgDir = <<>>), in walk order.
findGoFiles(files, pkgDir) ==
    SelectSeq(files, LAMBDA f : pkgDir = <<>> \/ f.dir = pkgDir)

\* TypeResolver.tryExtractEnumValues: the string and integer literals of the
\* constants declared with exactly the type typeName, in file order.
RECURSIVE tryExtractEnumValues(_, _)
tryExtractEnumValues(consts, typeName) ==
    IF consts = <<>> THEN <<>>
    ELSE LET c == Head(consts)
             rest == tryExtractEnumValues(Tail(consts), typeName)
         IN  IF c.type = typeName /\ c.kind \in {"STRING", "INT"}
             THEN <<[kind |-> c.kind, value |-> c.value]>> \o rest
             ELSE rest

\* The first TypeSpec of the file named `name`, as a sequence of zero or one.
FindTypeSpec(file, name) ==
    LET hits == SelectSeq(file.decls, LAMBDA d : d.name = name)
    IN  IF hits = <<>> THEN <<>> ELSE <<Head(hits)>>

----------------------------------------------------------------------------
(* TypeResolver (schema.go).  The resolver's state is threaded through the  *)
(* mutually recursive methods as st = [processed, schemas, overflow];      *)
(* depth counts the ResolveType calls on the stack.  A stack overflow is    *)
(* fatal in Go: once st.overflow is set every frame returns at once.       *)

ResolverState(p, s, o) == [processed |-> p, schemas |-> s, overflow |-> o]

\* schema.go:71  r.processed[typeName] = true, before the declaration is parsed
MarkProcessedLate(st, typeName) == st
MarkProcessed(st, typeName) == [st EXCEPT !.processed = @ \cup {typeName}]

\* A table that keeps the first schema stored under a name.
StoreSchemaOnce(st, cleanName, schema) ==
    IF cleanName \in DOMAIN st.schemas THEN st
    ELSE [st EXCEPT !.schemas = (cleanName :> schema) @@ @]

\* schema.go:83  r.schemas[cleanName] = schema
StoreSchema(st, cleanName, schema) ==
    [st EXCEPT !.schemas = (cleanName :> schema) @@ @]

\* schema.go:63  the memo test of ResolveType
IsProcessed(st, typeName) == typeName \in st.processed

\* schema.go:80  what ResolveType returns when findAndParseType fails
UnresolvedSchema(typeName) == TypeSchema("object")

RECURSIVE ResolveType(_, _, _, _)
RECURSIVE findAndParseType(_, _, _, _)
RECURSIVE parseFiles(_, _, _, _, _)
RECURSIVE parseFileForType(_, _, _, _, _)
RECURSIVE parseFields(_, _, _, _, _)
RECURSIVE parseFieldType(_, _, _, _)

\* parseFieldType, ArrayType: an array of the element's schema r.
ArraySchema(r) ==
    [schema |-> [TypeSchema("array") EXCEPT !.Items = <<r.schema>>], st |-> r.st]

\* parseFieldType, MapType: an object whose values have the schema r.
MapSchema(r) ==
    [schema |-> [TypeSchema("object") EXCEPT !.AdditionalProperties = <<r.schema>>],
     st |-> r.st]

\* TypeResolver.parseFieldType
parseFieldType(files, st, t, depth) ==
    CASE t.k = "Ident" ->
            IF resolveBuiltInType(t.name).Type # ""
            THEN [schema |-> resolveBuiltInType(t.name), st |-> st]
            ELSE ResolveType(files, st, t.name, depth + 1)
      [] t.k = "Sel" ->
            IF resolveBuiltInType(t.x \o <<".">> \o t.sel).Type # ""
            THEN [schema |-> resolveBuiltInType(t.x \o <<".">> \o t.sel), st |-> st]
            ELSE ResolveType(files, st, t.x \o <<".">> \o t.sel, depth + 1)
      [] t.k = "Array" -> ArraySchema(parseFieldType(files, st, t.elt, depth))
      [] t.k = "Map" -> MapSchema(parseFieldType(files, st, t.value, depth))
      [] t.k = "Star" -> parseFieldType(files, st, t.x, depth)
      [] OTHER -> [schema |-> TypeSchema("object"), st |-> st]

\* parseField leaving every field out of `required`.
fieldNeverRequired(schema, field, jsonName, mustHave, r) ==
    LET fieldSchema == IF field.doc # <<>>
                       THEN [r.schema EXCEPT !.Description = field.doc]
                       ELSE r.schema
    IN  [schema |-> [schema EXCEPT !.Properties = (jsonName :> fieldSchema) @@ @],
         st |-> r.st]

\* parseField, once the field's type has the schema r.schema: the description,
\* the property and its place in `required`.
fieldAdded(schema, field, jsonName, mustHave, r) ==
    LET fieldSchema == IF field.doc # <<>>
                       THEN [r.schema EXCEPT !.Description = field.doc]
                       ELSE r.schema
    IN  [schema |-> [schema EXCEPT
                        !.Properties = (jsonName :> fieldSchema) @@ @,
                        !.Required = IF mustHave THEN Append(@, jsonName) ELSE @],
         st |-> r.st]

\* TypeResolver.parseField: the json name and options, the validate tag, the
\* property and its place in `required`.
parseField(files, st, schema, field, depth) ==
    LET parts == Split(field.json, ",")
        jsonName == IF field.json # <<>> THEN parts[1] ELSE <<>>
        omitempty == field.json # <<>>
                     /\ \E i \in 2..Len(parts) : parts[i] = <<"omitempty">>
        required == field.validate # <<>> /\ Contains(field.validate, "required")
    IN  IF jsonName = <<>> \/ jsonName = <<"-">>
        THEN [schema |-> schema, st |-> st]
        ELSE fieldAdded(schema, field, jsonName, ~omitempty \/ required,
                        parseFieldType(files, st, field.type, depth))

\* The field loop of TypeResolver.parseStruct after a field gave r.
fieldsAfter(files, r, fields, depth) ==
    IF r.st.overflow THEN r
    ELSE parseFields(files, r.st, r.schema, Tail(fields), depth)

\* The field loop of TypeResolver.parseStruct.
parseFields(files, st, schema, fields, depth) ==
    IF fields = <<>> THEN [schema |-> schema, st |-> st]
    ELSE fieldsAfter(files, parseField(files, st, schema, Head(fields), depth), fields, depth)

\* TypeResolver.parseStruct
parseStruct(files, st, decl, depth) ==
    parseFields(files, st,
                [TypeSchema("object") EXCEPT !.Description = decl.doc],
                decl.fields, depth)

\* parseFileForType, StructType: the parsed struct r was found.
foundStruct(r) == [schema |-> r.schema, found |-> TRUE, err |-> FALSE, st |-> r.st]

\* parseFileForType, Ident and SelectorExpr: an enum when the name ends in Enum,
\* the underlying built-in type otherwise.
foundAlias(st, typeName, enumType, underlying, enumValues) ==
    [schema |-> IF HasSuffix(typeName, <<"Enum">>)
                THEN [SchemaSpec0 EXCEPT
                         !.Type = enumType,
                         !.Description = <<"Enum type: ">> \o typeName,
                         !.Enum = enumValues]
                ELSE resolveBuiltInType(underlying),
     found |-> TRUE, err |-> FALSE, st |-> st]

\* parseFileForType for the TypeSpec hit (none: <<>>).
parsedTypeSpec(files, st, file, hit, typeName, depth) ==
    CASE hit = <<>> -> [schema |-> SchemaSpec0, found |-> FALSE, err |-> FALSE, st |-> st]
      [] hit # <<>> /\ hit[1].kind = "struct" ->
            foundStruct(parseStruct(files, st, hit[1], depth))
      [] hit # <<>> /\ hit[1].kind = "ident" ->
            foundAlias(st, typeName, mapUnderlyingTypeToOpenAPI(hit[1].underlying),
                       hit[1].underlying, tryExtractEnumValues(file.consts, typeName))
      [] hit # <<>> /\ hit[1].kind = "selector" ->
            foundAlias(st, typeName, "string", hit[1].underlying,
                       tryExtractEnumValues(file.consts, typeName))
      [] OTHER -> [schema |-> SchemaSpec0, found |-> FALSE, err |-> TRUE, st |-> st]

\* TypeResolver.parseFileForType: [schema, found, err, st]
parseFileForType(files, st, file, typeName, depth) ==
    parsedTypeSpec(files, st, file, FindTypeSpec(file, typeName), typeName, depth)

\* The file loop of TypeResolver.findAndParseType after a file gave r: a file
\* that fails is skipped, the first file that has the type decides.
filesAfter(files, r, candidates, structName, depth) ==
    IF r.st.overflow \/ (~r.err /\ r.found)
    THEN [schema |-> r.schema, err |-> FALSE, st |-> r.st]
    ELSE parseFiles(files, r.st, Tail(candidates), structName, depth)

\* The file loop of TypeResolver.findAndParseType.
parseFiles(files, st, candidates, structName, depth) ==
    IF candidates = <<>> THEN [schema |-> SchemaSpec0, err |-> TRUE, st |-> st]
    ELSE filesAfter(files, parseFileForType(files, st, Head(candidates), structName, depth),
                    candidates, structName, depth)

\* The package and type parts of a type name: [pkgName, structName].
nameParts(typeName) ==
    IF Contains(typeName, ".")
    THEN [pkgName |-> Split(typeName, ".")[1], structName |-> Split(typeName, ".")[2]]
    ELSE [pkgName |-> <<>>, structName |-> typeName]

\* The directory findAndParseType searches for the package (<<>>: all of them).
searchDir(pkgName) == IF pkgName # <<>> THEN mapPackageNameToDir(pkgName) ELSE <<>>

\* TypeResolver.findAndParseType
findAndParseType(files, st, typeName, depth) ==
    parseFiles(files, st, findGoFiles(files, searchDir(nameParts(typeName).pkgName)),
               nameParts(typeName).structName, depth)

\* ResolveType once findAndParseType has returned r.
resolved(typeName, r) ==
    CASE r.st.overflow -> [schema |-> SchemaSpec0, st |-> r.st]
      [] ~r.st.overflow /\ r.err -> [schema |-> UnresolvedSchema(typeName), st |-> r.st]
      [] OTHER -> [schema |-> RefSchema(cleanTypeName(typeName)),
                   st |-> StoreSchema(r.st, cleanTypeName(typeName), r.schema)]

\* TypeResolver.ResolveType: [schema, st]; the error it returns is always nil.
\* A call that has to parse a declaration needs a frame chain of its own.
ResolveType(files, st, typeName, depth) ==
    CASE resolveBuiltInType(typeName).Type # "" ->
            [schema |-> resolveBuiltInType(typeName), st |-> st]
      [] resolveBuiltInType(typeName).Type = "" /\ IsProcessed(st, typeName) ->
            [schema |-> RefSchema(cleanTypeName(typeName)), st |-> st]
      [] resolveBuiltInType(typeName).Type = "" /\ ~IsProcessed(st, typeName)
            /\ depth > MaxDepth ->
            [schema |-> SchemaSpec0, st |-> [st EXCEPT !.overflow = TRUE]]
      [] OTHER ->
            resolved(typeName,
                     findAndParseType(files, MarkProcessed(st, typeName), typeName, depth))

----------------------------------------------------------------------------
(* The model trees the resolver is run on: package a (directory a) declares *)
(* struct Feed and enum StatusEnum, package b declares struct Item; b may   *)
(* declare a second Feed and a may declare an Item the resolver cannot use. *)

Field(json, validate, doc, type) ==
    [json |-> json, validate |-> validate, doc |-> doc, type |-> type]
StructDecl(name, doc, fields) ==
    [name |-> name, kind |-> "struct", doc |-> doc, fields |-> fields]
IdentDecl(name, underlying) == [name |-> name, kind |-> "ident", underlying |-> underlying]
UnsupportedDecl(name) == [name |-> name, kind |-> "unsupported"]
Const(type, kind, value) == [type |-> type, kind |-> kind, value |-> value]

TFeed == <<"Feed">>
TItem == <<"Item">>
TMissing == <<"Missing">>
TStatusEnum == <<"Status", "Enum">>
TAFeed == <<"a", "_", "models", ".", "Feed">>
TBFeed == <<"b", "_", "models", ".", "Feed">>
TBItem == <<"b", "_", "models", ".", "Item">>

\* The types the first field of Feed is declared with.
FeedFieldTypes ==
    {Ident(<<"string">>), Ident(TFeed), StarOf(Ident(TFeed)), ArrayOf(Ident(TFeed)),
     ArrayOf(StarOf(Ident(TFeed))), MapOf(Ident(TFeed)), Ident(TItem),
     Sel(<<"b", "_", "models">>, TItem), Ident(TMissing),
     Sel(<<"c", "_", "models">>, <<"Gone">>), Sel(<<"time">>, <<"Time">>),
     OtherType, Ident(TStatusEnum)}

\* The types the field of Item is declared with.
ItemFieldTypes ==
    {Ident(<<"string">>), Ident(TFeed), StarOf(Sel(<<"a", "_", "models">>, TFeed)),
     ArrayOf(Ident(TItem)), Ident(TMissing)}

\* What package b declares under the name Feed.
SecondFeeds ==
    {<<>>, <<IdentDecl(TFeed, <<"string">>)>>,
     <<StructDecl(TFeed, <<>>,
            <<Field(<<"title">>, <<>>, <<>>, Ident(<<"string">>)),
              Field(<<"-">>, <<"required">>, <<>>, Ident(<<"string">>)),
              Field(<<",", "omitempty">>, <<>>, <<>>, Ident(<<"string">>)),
              Field(<<"note", ",", "omitempty">>, <<"required">>, <<>>, Ident(<<"string">>)),
              Field(<<"hint", ",", "omitempty">>, <<"max=9">>, <<>>, Ident(<<"string">>))>>)>>}

\* What package a declares under the name Item.
ShadowItems == {<<>>, <<UnsupportedDecl(TItem)>>}

FileA(t1, shadow) ==
    [dir |-> <<"a">>,
     decls |-> shadow \o
               <<StructDecl(TFeed, <<"A feed">>,
                    <<Field(<<"f1">>, <<>>, <<>>, t1),
                      Field(<<>>, <<>>, <<>>, StarOf(Ident(TFeed))),
                      Field(<<"id", ",", "omitempty">>, <<>>, <<"The id">>, Ident(<<"uint64">>))>>),
                 IdentDecl(TStatusEnum, <<"string">>)>>,
     consts |-> <<Const(TStatusEnum, "STRING", <<"on">>), Const(<<>>, "STRING", <<"x">>),
                  Const(TStatusEnum, "STRING", <<"off">>)>>]

FileB(t2, second) ==
    [dir |-> <<"b">>,
     decls |-> <<StructDecl(TItem, <<>>, <<Field(<<"g1">>, <<"required">>, <<>>, t2)>>)>> \o second,
     consts |-> <<>>]

ModelTrees ==
    {<<FileA(t1, shadow), FileB(t2, second)>> :
        t1 \in FeedFieldTypes, shadow \in ShadowItems,
        t2 \in ItemFieldTypes, second \in SecondFeeds}

\* The names a client asks the resolver for.
ResolveNames == {TFeed, TAFeed, TBFeed, TItem, TBItem, TMissing, TStatusEnum, <<"string">>}

----------------------------------------------------------------------------
(* The resolver as a state machine: one action per ResolveType call.       *)

\* fresh: the call was the first to go past the memo test for its name.
NoCall == [name |-> <<>>, schema |-> SchemaSpec0, table |-> <<>>, fresh |-> FALSE]

\* A TypeResolver as NewTypeResolver leaves it.
NewTypeResolver ==
    /\ processed = {}
    /\ schemas = <<>>
    /\ overflow = FALSE
    /\ lastCall = NoCall
    /\ prevCall = NoCall
    /\ nCalls = 0

InitResolver ==
    /\ models \in ModelTrees
    /\ NewTypeResolver

\* A client calls r.ResolveType(typeName).
ResolveTypeCall(typeName) ==
    /\ nCalls < MaxCalls
    /\ LET r == ResolveType(models, ResolverState(processed, schemas, overflow), typeName, 1)
       IN  /\ processed' = r.st.processed
           /\ schemas' = r.st.schemas
           /\ overflow' = r.st.overflow
           /\ lastCall' = [name |-> typeName, schema |-> r.schema, table |-> r.st.schemas,
                            fresh |-> resolveBuiltInType(typeName).Type = ""
                                      /\ typeName \notin processed]
    /\ prevCall' = lastCall
    /\ nCalls' = nCalls + 1
    /\ UNCHANGED models
    /\ UNCHANGED <<securityVars, routeVars, assembleVars, registryVars, sharedVars, helperVars>>

NextResolver == \E typeName \in ResolveNames : ResolveTypeCall(typeName)

----------------------------------------------------------------------------
(* Properties of the resolver.                                             *)

\* The declaration findAndParseType settles on for typeName: the first usable
\* TypeSpec of that name in the directory the qualifier names (<<>> if none).
DeclarationOf(files, typeName) ==
    LET parts == Split(typeName, ".")
        qualified == Contains(typeName, ".")
        structName == IF qualified THEN parts[2] ELSE typeName
        pkgDir == IF qualified /\ parts[1] # <<>> THEN mapPackageNameToDir(parts[1]) ELSE <<>>
        hits == SelectSeq(findGoFiles(files, pkgDir),
                          LAMBDA f : FindTypeSpec(f, structName) # <<>>
                                     /\ FindTypeSpec(f, structName)[1].kind # "unsupported")
    IN  IF hits = <<>> THEN <<>> ELSE FindTypeSpec(Head(hits), structName)

\* No file under the models root declares a type with typeName's bare name.
Undeclared(files, typeName) ==
    \A i \in 1..Len(files) : FindTypeSpec(files[i], cleanTypeName(typeName)) = <<>>

RECURSIVE Pointee(_)
\* The type a field type points at, through any number of pointers.
Pointee(t) == IF t.k = "Star" THEN Pointee(t.x) ELSE t

\* The field's property in `schema` refers to the struct `name` itself: a $ref
\* for a field of type name or *name, an array of that $ref for a slice.
SelfFieldOK(name, field, schema) ==
    LET jsonName == Split(field.json, ",")[1]
        t == Pointee(field.type)
        own == RefPrefix \o name
    IN  (field.json # <<>> /\ jsonName # <<>> /\ jsonName # <<"-">>) =>
          /\ (t = Ident(name)) =>
                /\ jsonName \in DOMAIN schema.Properties
                /\ schema.Properties[jsonName].Ref = own
          /\ (t.k = "Array" /\ Pointee(t.elt) = Ident(name)) =>
                /\ jsonName \in DOMAIN schema.Properties
                /\ schema.Properties[jsonName].Type = "array"
                /\ Len(schema.Properties[jsonName].Items) = 1
                /\ schema.Properties[jsonName].Items[1].Ref = own

\* The latest call went past the memo test and stored the schema of a struct.
StoredStruct ==
    /\ lastCall.fresh
    /\ DeclarationOf(models, lastCall.name) # <<>>
    /\ DeclarationOf(models, lastCall.name)[1].kind = "struct"

\* C2 (as claimed): two ResolveType calls in a row with the same name return the
\* same SchemaSpec, and the second call leaves the schema table as the first
\* left it.
C2_SameNameSameResult ==
    (prevCall.name # <<>> /\ prevCall.name = lastCall.name) =>
        /\ lastCall.schema = prevCall.schema
        /\ lastCall.table = prevCall.table

\* C3: resolution never outgrows the stack, whatever the declarations (self
\* reference, mutual reference), and the schema stored for a struct shows each
\* field of the struct's own type as a $ref to the struct's own schema name,
\* inside items for a slice.
C3_CycleSafe ==
    /\ ~overflow
    /\ StoredStruct =>
        LET decl == DeclarationOf(models, lastCall.name)[1]
            key == cleanTypeName(lastCall.name)
        IN  /\ key \in DOMAIN schemas
            /\ \A i \in 1..Len(decl.fields) :
                  SelfFieldOK(decl.name, decl.fields[i], schemas[key])

\* C3 witness: Feed, whose first field is a slice of Feed, has been resolved and
\* its property is an array of $ref Feed.
C3_Witness ==
    /\ StoredStruct
    /\ lastCall.name = TFeed
    /\ DeclarationOf(models, TFeed)[1].fields[1].type = ArrayOf(Ident(TFeed))
    /\ schemas[TFeed].Properties[<<"f1">>].Items[1].Ref = RefPrefix \o TFeed

\* C4 (as claimed): every ResolveType call on a name that is not built in and
\* that no file under the models root declares returns the object schema with
\* no properties.
C4_UndeclaredIsObject ==
    (lastCall.name # <<>>
     /\ resolveBuiltInType(lastCall.name).Type = ""
     /\ Undeclared(models, lastCall.name)) =>
        lastCall.schema = TypeSchema("object")

----------------------------------------------------------------------------
(* Expressions of a controller file (go/ast, as far as the route extractor *)
(* looks at them) and their rendering as text (extract_endpoints.go).      *)
(*   [k |-> "Ident", name] | [k |-> "Selector", x, sel] |                  *)
(*   [k |-> "Call", fun, args] | [k |-> "BasicLit", kind, value] |         *)
(*   [k |-> "FuncLit"]                                                      *)

SelectorExpr(x, sel) == [k |-> "Selector", x |-> x, sel |-> sel]
CallExpr(fun, args) == [k |-> "Call", fun |-> fun, args |-> args]
BasicLit(kind, value) == [k |-> "BasicLit", kind |-> kind, value |-> value]
FuncLit == [k |-> "FuncLit"]
\* The string literal "text", quotes included as the parser keeps them.
StringLit(text) == BasicLit("STRING", <<"\"">> \o text \o <<"\"">>)

\* strings.Contains / strings.Index for a needle of several tokens.
ContainsStr(s, sub) ==
    \E i \in 1..(Len(s) - Len(sub) + 1) : SubSeq(s, i, i + Len(sub) - 1) = sub
IndexStr(s, sub) ==
    IF ContainsStr(s, sub)
    THEN CHOOSE i \in 1..(Len(s) - Len(sub) + 1) :
            /\ SubSeq(s, i, i + Len(sub) - 1) = sub
            /\ \A j \in 1..(i - 1) : SubSeq(s, j, j + Len(sub) - 1) # sub
    ELSE 0

RECURSIVE extractExpressionAsString(_)
\* extractExpressionAsString
extractExpressionAsString(expr) ==
    CASE expr.k = "Ident" -> expr.name
      [] expr.k = "Selector" -> extractExpressionAsString(expr.x) \o <<".">> \o expr.sel
      [] expr.k = "Call" /\ expr.fun.k = "Selector" ->
            extractExpressionAsString(expr.fun) \o <<"(", ")">>
      [] expr.k = "Call" /\ expr.fun.k = "Ident" -> expr.fun.name \o <<"(", ")">>
      [] OTHER -> <<"?">>

\* parseContext.extractArgument
extractArgument(expr) ==
    CASE expr.k = "BasicLit" -> expr.value
      [] expr.k = "Ident" -> expr.name
      [] expr.k = "Selector" -> extractExpressionAsString(expr)
      [] OTHER -> <<"?">>

\* The rendered arguments of a call, joined with ", ".
JoinedArguments(args) ==
    Join([i \in 1..Len(args) |-> extractArgument(args[i])], <<",", " ">>)

\* parseContext.extractEnhancedMiddlewareName; known is ctx.variables.
extractEnhancedMiddlewareName(known, expr) ==
    CASE expr.k = "Ident" ->
            IF expr.name \in DOMAIN known THEN known[expr.name] ELSE expr.name
      [] expr.k = "Call" /\ expr.fun.k = "Ident" ->
            IF Len(expr.args) > 0
            THEN expr.fun.name \o <<"(">> \o JoinedArguments(expr.args) \o <<")">>
            ELSE expr.fun.name \o <<"(", ")">>
      [] expr.k = "Call" /\ expr.fun.k = "Selector" ->
            IF Len(expr.args) > 0
            THEN extractExpressionAsString(expr.fun) \o <<"(">>
                 \o JoinedArguments(expr.args) \o <<")">>
            ELSE extractExpressionAsString(expr.fun) \o <<"(", ")">>
      [] expr.k = "Selector" -> extractExpressionAsString(expr)
      [] OTHER -> <<>>

RECURSIVE AppendMiddleware(_, _, _)
\* The loops `if mw := ctx.extractEnhancedMiddlewareName(arg); mw != ""` of
\* handleAssignment and parseHTTPMethodCall: base, then each argument that
\* renders as a non-empty text.
AppendMiddleware(known, base, args) ==
    IF args = <<>> THEN base
    ELSE AppendMiddleware(known,
            IF extractEnhancedMiddlewareName(known, Head(args)) # <<>>
            THEN Append(base, extractEnhancedMiddlewareName(known, Head(args)))
            ELSE base,
            Tail(args))

----------------------------------------------------------------------------
(* Security requirements of a route (analyzer: extractSecurity).           *)

\* The markers extractSecurity looks for in a middleware text.
NotAuthenticated == <<"Not", "Authenticated">>
Authenticated == <<"Authenticated">>
IsAuthenticated == <<"Is", "Authenticated">>

\* knownPermissionConstants
knownPermissionConstants ==
    (<<"session_manager_models", ".", "SuperadminRoleFeature">> :> <<"superadmin">>)

RECURSIVE TrimSpace(_)
\* strings.TrimSpace
TrimSpace(s) ==
    IF s # <<>> /\ Head(s) = " " THEN TrimSpace(Tail(s))
    ELSE IF s # <<>> /\ Last(s) = " " THEN TrimSpace(SubSeq(s, 1, Len(s) - 1))
    ELSE s

\* analyzerContext.cleanPermissionArg
cleanPermissionArg(arg) ==
    LET trimmed == TrimSpace(arg)
        unquoted == IF Len(trimmed) >= 2
                       /\ \/ Head(trimmed) = "\"" /\ Last(trimmed) = "\""
                          \/ Head(trimmed) = "'" /\ Last(trimmed) = "'"
                    THEN SubSeq(trimmed, 2, Len(trimmed) - 1)
                    ELSE trimmed
    IN  IF unquoted \in DOMAIN knownPermissionConstants
        THEN knownPermissionConstants[unquoted]
        ELSE unquoted

\* The patterns of extractPermissionsFromMiddleware, in its order.
permissionPatterns ==
    <<[prefix |-> <<"hasPermission", "(">>, multiValue |-> FALSE],
      [prefix |-> <<"AllFeaturesOf", "(">>, multiValue |-> TRUE],
      [prefix |-> <<"AnyFeaturesOf", "(">>, multiValue |-> TRUE],
      [prefix |-> <<"RequirePermissions", "(">>, multiValue |-> TRUE],
      [prefix |-> <<"RequireAnyPermission", "(">>, multiValue |-> TRUE]>>

RECURSIVE closingParen(_, _, _, _)
\* The paren-matching loop of extractPermissionsFromMiddleware, from position i
\* with parenDepth open parentheses: the position of the one that closes the
\* call, or `end` unchanged when the text runs out first.
closingParen(mw, i, parenDepth, end) ==
    IF i > Len(mw) \/ parenDepth <= 0 THEN end
    ELSE IF mw[i] = "(" THEN closingParen(mw, i + 1, parenDepth + 1, end)
    ELSE IF mw[i] = ")"
        THEN closingParen(mw, i + 1, parenDepth - 1, IF parenDepth = 1 THEN i ELSE end)
    ELSE closingParen(mw, i + 1, parenDepth, end)

RECURSIVE cleanedParts(_)
\* The non-empty cleaned values of a list of arguments.
cleanedParts(parts) ==
    IF parts = <<>> THEN <<>>
    ELSE (IF cleanPermissionArg(Head(parts)) # <<>>
          THEN <<cleanPermissionArg(Head(parts))>> ELSE <<>>)
         \o cleanedParts(Tail(parts))

\* What one pattern of extractPermissionsFromMiddleware adds for mw.
permissionsOfPattern(mw, pattern) ==
    LET idx == IndexStr(mw, pattern.prefix)
        start == idx + Len(pattern.prefix)
        end == closingParen(mw, start, 1, start)
        args == SubSeq(mw, start, end - 1)
    IN  IF idx = 0 \/ ~(end > start) THEN <<>>
        ELSE IF pattern.multiValue THEN cleanedParts(Split(args, ","))
        ELSE cleanedParts(<<args>>)

RECURSIVE permissionsOfPatterns(_, _)
permissionsOfPatterns(mw, patterns) ==
    IF patterns = <<>> THEN <<>>
    ELSE permissionsOfPattern(mw, Head(patterns)) \o permissionsOfPatterns(mw, Tail(patterns))

\* analyzerContext.extractPermissionsFromMiddleware
extractPermissionsFromMiddleware(mw) == permissionsOfPatterns(mw, permissionPatterns)

SecurityRequirement(name, scopes) == [Name |-> name, Scopes |-> scopes]

\* part_004:696  the entry lifts authentication from the route
SkipsAuthNever(mw) == FALSE
MarksAuthAlways(mw) == TRUE
SkipsAuth(mw) == ContainsStr(mw, NotAuthenticated)

\* part_004:701  the entry is authentication middleware
MarksAuth(mw) == ContainsStr(mw, Authenticated) \/ ContainsStr(mw, IsAuthenticated)

\* part_004:711-725  the requirement of an authenticated route
BearerOnly(scopes) == SecurityRequirement("bearerAuth", <<>>)
AuthRequirement(scopes) ==
    IF Len(scopes) > 0
    THEN SecurityRequirement("permissions", scopes)
    ELSE SecurityRequirement("bearerAuth", <<>>)

RECURSIVE extractSecurityFrom(_, _, _, _)
\* The loop of extractSecurity from entry i on, then its tail.
extractSecurityFrom(middleware, i, scopes, hasAuth) ==
    IF i > Len(middleware)
    THEN IF hasAuth THEN <<AuthRequirement(scopes)>> ELSE <<>>
    ELSE IF SkipsAuth(middleware[i]) THEN <<>>
    ELSE extractSecurityFrom(middleware, i + 1,
                             scopes \o extractPermissionsFromMiddleware(middleware[i]),
                             hasAuth \/ MarksAuth(middleware[i]))

\* analyzerContext.extractSecurity
extractSecurity(middleware) == extractSecurityFrom(middleware, 1, <<>>, FALSE)

----------------------------------------------------------------------------
(* extractSecurity as a state machine: the middleware arguments of a route *)
(* are rendered by the route extractor, then extractSecurity runs once.    *)

\* Middleware arguments per route.
MaxChain == 3

gates == SelectorExpr([k |-> "Ident", name |-> <<"c">>], <<"gates">>)
MwAuthenticated == CallExpr(SelectorExpr(SelectorExpr(gates, IsAuthenticated), Authenticated), <<>>)
MwNotAuthenticated == CallExpr(SelectorExpr(gates, NotAuthenticated), <<>>)
MwInactive == SelectorExpr(gates, <<"Authenticated", "Inactive">>)
MwAuthCheck == [k |-> "Ident", name |-> <<"authCheck">>]
MwHasPermission ==
    CallExpr([k |-> "Ident", name |-> <<"hasPermission">>], <<StringLit(<<"orders:write">>)>>)
MwHasNothing == CallExpr([k |-> "Ident", name |-> <<"hasPermission">>], <<>>)
MwHasEmpty == CallExpr([k |-> "Ident", name |-> <<"hasPermission">>], <<StringLit(<<>>)>>)
MwAllFeatures ==
    CallExpr(SelectorExpr(SelectorExpr(gates, IsAuthenticated), <<"AllFeaturesOf">>),
             <<StringLit(<<"admin">>),
               SelectorExpr([k |-> "Ident", name |-> <<"session_manager_models">>],
                            <<"SuperadminRoleFeature">>)>>)
MwAnyFeatures ==
    CallExpr([k |-> "Ident", name |-> <<"AnyFeaturesOf">>],
             <<StringLit(<<"a">>), StringLit(<<"b">>)>>)
MwRequire ==
    CallExpr([k |-> "Ident", name |-> <<"RequirePermissions">>],
             <<CallExpr([k |-> "Ident", name |-> <<"scope">>], <<>>)>>)

\* The middleware arguments a route is written with.
SecurityExprs ==
    {MwAuthenticated, MwNotAuthenticated, MwInactive, MwAuthCheck, MwHasPermission,
     MwHasNothing, MwHasEmpty, MwAllFeatures, MwAnyFeatures, MwRequire, FuncLit}

SeqsUpTo(S, n) == UNION {[1..m -> S] : m \in 0..n}

IdleSecurity ==
    /\ chain = <<>>
    /\ security = <<>>
    /\ secDone = FALSE

InitSecurity ==
    /\ chain \in SeqsUpTo(SecurityExprs, MaxChain)
    /\ security = <<>>
    /\ secDone = FALSE

\* The middleware texts of the route, as the extractor hands them on.
MiddlewareOf(exprs) == AppendMiddleware(<<>>, <<>>, exprs)

\* enhanceEndpoint calls ac.extractSecurity(endpoint.Middleware).
ExtractSecurity ==
    /\ ~secDone
    /\ security' = extractSecurity(MiddlewareOf(chain))
    /\ secDone' = TRUE
    /\ UNCHANGED chain
    /\ UNCHANGED <<resolverVars, routeVars, assembleVars, registryVars, sharedVars, helperVars>>

NextSecurity == ExtractSecurity

----------------------------------------------------------------------------
(* Properties of extractSecurity.                                          *)

\* The name of the function a call expression calls.
CalledName(expr) ==
    IF expr.k # "Call" THEN <<>>
    ELSE IF expr.fun.k = "Ident" THEN expr.fun.name
    ELSE IF expr.fun.k = "Selector" THEN expr.fun.sel
    ELSE <<>>

PermissionFunctions ==
    {<<"hasPermission">>, <<"AllFeaturesOf">>, <<"AnyFeaturesOf">>,
     <<"RequirePermissions">>, <<"RequireAnyPermission">>}

\* The permission an argument of a permission call stands for (<<>>: none).
PermissionOfArg(arg) ==
    CASE arg.k = "BasicLit" -> SubSeq(arg.value, 2, Len(arg.value) - 1)
      [] arg = SelectorExpr([k |-> "Ident", name |-> <<"session_manager_models">>],
                            <<"SuperadminRoleFeature">>) -> <<"superadmin">>
      [] arg.k = "Ident" -> arg.name
      [] OTHER -> <<"?">>

\* The permissions a middleware argument carries, in the order written.
PermissionsOf(expr) ==
    IF CalledName(expr) \in PermissionFunctions
    THEN SelectSeq([i \in 1..Len(expr.args) |-> PermissionOfArg(expr.args[i])],
                   LAMBDA p : p # <<>>)
    ELSE <<>>

RECURSIVE PermissionsOfChain(_)
PermissionsOfChain(exprs) ==
    IF exprs = <<>> THEN <<>>
    ELSE PermissionsOf(Head(exprs)) \o PermissionsOfChain(Tail(exprs))

\* Some entry of the route's middleware names the marker.
ChainNames(marker) ==
    \E i \in 1..Len(MiddlewareOf(chain)) : ContainsStr(MiddlewareOf(chain)[i], marker)

\* C5: a chain with an entry naming NotAuthenticated, wherever it stands and
\* whatever else the chain holds, gets an empty security list.
C5_NotAuthenticatedWins ==
    (secDone /\ ChainNames(NotAuthenticated)) => security = <<>>

\* C5 witness: NotAuthenticated between an authentication marker and a
\* permission call; the result is empty.
C5_Witness ==
    /\ secDone
    /\ chain = <<MwAuthenticated, MwNotAuthenticated, MwHasPermission>>
    /\ security = <<>>

\* C6: without NotAuthenticated and with an authentication marker, the result is
\* exactly one requirement: `permissions` with the permissions of the chain's
\* permission calls when there are any, `bearerAuth` without scopes otherwise.
C6_OneRequirement ==
    (secDone /\ ~ChainNames(NotAuthenticated) /\ ChainNames(Authenticated)) =>
        IF PermissionsOfChain(chain) # <<>>
        THEN security = <<SecurityRequirement("permissions", PermissionsOfChain(chain))>>
        ELSE security = <<SecurityRequirement("bearerAuth", <<>>)>>

\* C6 witness: an authentication marker and hasPermission("orders:write").
C6_Witness ==
    /\ secDone
    /\ chain = <<MwAuthenticated, MwHasPermission>>
    /\ security = <<SecurityRequirement("permissions", <<<<"orders:write">>>>)>>

----------------------------------------------------------------------------
(* Route extraction (extract_endpoints.go).  A controller file is walked   *)
(* statement by statement; ctx = [groupPaths, groupMiddleware, variables]. *)
(*   statement : [k |-> "Assign", lhs, rhs] (lists of expressions) |       *)
(*               [k |-> "Expr", x]                                          *)

AssignStmt(lhs, rhs) == [k |-> "Assign", lhs |-> lhs, rhs |-> rhs]
ExprStmt(x) == [k |-> "Expr", x |-> x]

ParseContext(paths, mws, known) ==
    [groupPaths |-> paths, groupMiddleware |-> mws, variables |-> known]

EndpointInfo(path, method, handler, middleware) ==
    [Path |-> path, Method |-> method, Handler |-> handler, Middleware |-> middleware]

\* isHTTPMethod
isHTTPMethod(method) ==
    method \in {<<"Get">>, <<"Post">>, <<"Put">>, <<"Delete">>, <<"Patch">>,
                <<"Head">>, <<"Options">>}

\* extractStringLiteral: the text between the quotes of a string literal.
extractStringLiteral(expr) ==
    IF expr.k = "BasicLit" /\ expr.kind = "STRING"
    THEN SubSeq(expr.value, 2, Len(expr.value) - 1)
    ELSE <<>>

\* extractHandlerName
extractHandlerName(expr) ==
    CASE expr.k = "Ident" -> expr.name
      [] expr.k = "Call" /\ expr.fun.k = "Ident" -> expr.fun.name
      [] expr.k = "Call" /\ expr.fun.k = "Selector" -> expr.fun.sel
      [] expr.k = "Selector" -> expr.sel
      [] expr.k = "FuncLit" -> <<"<inline>">>
      [] OTHER -> <<>>

\* normalizePath(groupPath, endpointPath) of extract_endpoints.go
normalizePath(groupPath, endpointPath) ==
    LET trimmed == TrimSuffix(groupPath, <<"/">>)
        slashed == IF HasPrefix(endpointPath, <<"/">>)
                   THEN endpointPath ELSE <<"/">> \o endpointPath
    IN  CASE groupPath = <<>> /\ endpointPath = <<>> -> <<"/">>
          [] groupPath = <<>> /\ endpointPath # <<>> -> endpointPath
          [] groupPath # <<>> /\ endpointPath = <<>> -> groupPath
          [] OTHER -> IF trimmed = <<>> \/ trimmed = <<"/">>
                      THEN slashed
                      ELSE trimmed \o slashed

\* handleAssignment, lines 274-309: the group the call registers under varName.
registerGroup(ctx, varName, call) ==
    LET groupPath == extractStringLiteral(call.args[1])
        nested == call.fun.x.k = "Ident" /\ call.fun.x.name \in DOMAIN ctx.groupPaths
        parentPath == IF nested THEN ctx.groupPaths[call.fun.x.name] ELSE <<>>
        parentMiddleware ==
            IF nested /\ call.fun.x.name \in DOMAIN ctx.groupMiddleware
            THEN ctx.groupMiddleware[call.fun.x.name] ELSE <<>>
    IN  IF groupPath # <<>>
        THEN [ctx EXCEPT
                !.groupPaths = (varName :> (parentPath \o groupPath)) @@ @,
                !.groupMiddleware =
                    (varName :> AppendMiddleware(ctx.variables, parentMiddleware,
                                                 Tail(call.args))) @@ @]
        ELSE ctx

\* handleAssignment, lines 317-322: the symbolic name recorded for varName.
recordVariable(ctx, varName, text) ==
    [ctx EXCEPT !.variables = (varName :> text) @@ @]

\* parseContext.handleAssignment
handleAssignment(ctx, assign) ==
    CASE Len(assign.lhs) # 1 \/ Len(assign.rhs) # 1 -> ctx
      [] Len(assign.lhs) = 1 /\ Len(assign.rhs) = 1 /\ assign.lhs[1].k # "Ident" -> ctx
      [] Len(assign.lhs) = 1 /\ Len(assign.rhs) = 1 /\ assign.lhs[1].k = "Ident"
            /\ assign.rhs[1].k = "Call" /\ assign.rhs[1].fun.k = "Selector" ->
            recordVariable(
                IF assign.rhs[1].fun.sel = <<"Group">> /\ Len(assign.rhs[1].args) >= 1
                THEN registerGroup(ctx, assign.lhs[1].name, assign.rhs[1])
                ELSE ctx,
                assign.lhs[1].name,
                extractExpressionAsString(assign.rhs[1].fun.x) \o <<".">>
                    \o assign.rhs[1].fun.sel)
      [] Len(assign.lhs) = 1 /\ Len(assign.rhs) = 1 /\ assign.lhs[1].k = "Ident"
            /\ assign.rhs[1].k = "Selector" ->
            recordVariable(ctx, assign.lhs[1].name, extractExpressionAsString(assign.rhs[1]))
      [] OTHER -> ctx

\* parseHTTPMethodCall, lines 369-375: the first argument from the left that
\* can be a handler -- not what the loop does.
handlerIndexFirst(args) ==
    IF \E i \in 2..Len(args) : extractHandlerName(args[i]) # <<>>
    THEN CHOOSE i \in 2..Len(args) :
            /\ extractHandlerName(args[i]) # <<>>
            /\ \A j \in 2..(i - 1) : extractHandlerName(args[j]) = <<>>
    ELSE 0
\* parseHTTPMethodCall, lines 369-375: the right-most argument after the path
\* that can be a handler (0: none).
handlerIndex(args) ==
    IF \E i \in 2..Len(args) : extractHandlerName(args[i]) # <<>>
    THEN CHOOSE i \in 2..Len(args) :
            /\ extractHandlerName(args[i]) # <<>>
            /\ \A j \in (i + 1)..Len(args) : extractHandlerName(args[j]) = <<>>
    ELSE 0

\* parseHTTPMethodCall past its early returns.
endpointOf(ctx, call) ==
    LET path == IF extractStringLiteral(call.args[1]) = <<>>
                THEN <<"/">> ELSE extractStringLiteral(call.args[1])
        grouped == call.fun.x.k = "Ident"
        groupPath == IF grouped /\ call.fun.x.name \in DOMAIN ctx.groupPaths
                     THEN ctx.groupPaths[call.fun.x.name] ELSE <<>>
        groupMW == IF grouped /\ call.fun.x.name \in DOMAIN ctx.groupMiddleware
                   THEN ctx.groupMiddleware[call.fun.x.name] ELSE <<>>
        h == handlerIndex(call.args)
    IN  EndpointInfo(normalizePath(groupPath, path), call.fun.sel,
                     extractHandlerName(call.args[h]),
                     AppendMiddleware(ctx.variables, groupMW, SubSeq(call.args, 2, h - 1)))

\* parseContext.parseHTTPMethodCall: zero or one EndpointInfo.
parseHTTPMethodCall(ctx, call) ==
    IF call.fun.k = "Selector" /\ isHTTPMethod(call.fun.sel) /\ Len(call.args) >= 2
       /\ handlerIndex(call.args) # 0
    THEN <<endpointOf(ctx, call)>>
    ELSE <<>>

RECURSIVE inspectExpr(_, _)
RECURSIVE inspectExprs(_, _)
\* ast.Inspect below an expression: parseHTTPMethodCall on every call
\* expression, parents before children, left to right.
inspectExpr(ctx, expr) ==
    CASE expr.k = "Call" ->
            parseHTTPMethodCall(ctx, expr) \o inspectExpr(ctx, expr.fun)
                \o inspectExprs(ctx, expr.args)
      [] expr.k = "Selector" -> inspectExpr(ctx, expr.x)
      [] OTHER -> <<>>

inspectExprs(ctx, exprs) ==
    IF exprs = <<>> THEN <<>>
    ELSE inspectExpr(ctx, Head(exprs)) \o inspectExprs(ctx, Tail(exprs))

----------------------------------------------------------------------------
(* parseControllerFile as a state machine: one step per statement of the   *)
(* controller file, in source order.                                       *)

\* Statements per controller file.
MaxStmts == 4

PathOrders == <<"/", "orders", "/", ":", "id">>
CallOn(recv, method, args) == CallExpr(SelectorExpr(Ident(recv), method), args)

\* root := server.Group("/api", c.gates.IsAuthenticated.Authenticated())
StmtRoot ==
    AssignStmt(<<Ident(<<"root">>)>>,
               <<CallOn(<<"server">>, <<"Group">>,
                        <<StringLit(<<"/", "api">>), MwAuthenticated>>)>>)
\* a := root.Group("/a", hasPermission("orders:write"))
StmtGroupA ==
    AssignStmt(<<Ident(<<"a">>)>>,
               <<CallOn(<<"root">>, <<"Group">>,
                        <<StringLit(<<"/", "a">>), MwHasPermission>>)>>)
\* a := root.Group("", AnyFeaturesOf("a", "b"))
StmtGroupANoPath ==
    AssignStmt(<<Ident(<<"a">>)>>,
               <<CallOn(<<"root">>, <<"Group">>, <<StringLit(<<>>), MwAnyFeatures>>)>>)
\* b := a.Group("/b/", func(...) {...}, authCheck)
StmtGroupB ==
    AssignStmt(<<Ident(<<"b">>)>>,
               <<CallOn(<<"a">>, <<"Group">>,
                        <<StringLit(<<"/", "b", "/">>), FuncLit, MwAuthCheck>>)>>)
\* b := a.Group(prefix, authCheck)
StmtGroupBVar ==
    AssignStmt(<<Ident(<<"b">>)>>,
               <<CallOn(<<"a">>, <<"Group">>, <<Ident(<<"prefix">>), MwAuthCheck>>)>>)
\* v1 := b.Group("/v1")
StmtGroupV1 ==
    AssignStmt(<<Ident(<<"v1">>)>>,
               <<CallOn(<<"b">>, <<"Group">>, <<StringLit(<<"/", "v1">>)>>)>>)
\* authCheck := c.gates.AuthenticatedInactive
StmtVariable == AssignStmt(<<Ident(<<"authCheck">>)>>, <<MwInactive>>)
\* x, err := server.Get("/two", Two)
StmtTwoValues ==
    AssignStmt(<<Ident(<<"x">>), Ident(<<"err">>)>>,
               <<CallOn(<<"server">>, <<"Get">>,
                        <<StringLit(<<"/", "two">>), Ident(<<"Two">>)>>)>>)
\* b.Post("/orders/:id", authCheck, hasPermission("orders:write"), CreateOrder)
StmtCreateOrder ==
    ExprStmt(CallOn(<<"b">>, <<"Post">>,
                    <<StringLit(PathOrders), MwAuthCheck, MwHasPermission,
                      Ident(<<"CreateOrder">>)>>))
\* a.Put("/items/:id", authCheck, func(...) {...}, c.UpdateItem)
StmtUpdateItem ==
    ExprStmt(CallOn(<<"a">>, <<"Put">>,
                    <<StringLit(<<"/", "items", "/", ":", "id">>), MwAuthCheck, FuncLit,
                      SelectorExpr(Ident(<<"c">>), <<"UpdateItem">>)>>))
\* a.Get("items", c.ListItems)
StmtListItems ==
    ExprStmt(CallOn(<<"a">>, <<"Get">>,
                    <<StringLit(<<"items">>),
                      SelectorExpr(Ident(<<"c">>), <<"ListItems">>)>>))
\* root.Delete("", c.gates.NotAuthenticated(), func(...) {...})
StmtInline ==
    ExprStmt(CallOn(<<"root">>, <<"Delete">>,
                    <<StringLit(<<>>), MwNotAuthenticated, FuncLit>>))
\* server.Use(logger) and b.Head("/x"): no endpoint
StmtUse == ExprStmt(CallOn(<<"server">>, <<"Use">>, <<Ident(<<"logger">>), Ident(<<"h">>)>>))
StmtHead == ExprStmt(CallOn(<<"b">>, <<"Head">>, <<StringLit(<<"/", "x">>)>>))

\* The statements a controller file is written with.
Stmts ==
    {StmtRoot, StmtGroupA, StmtGroupANoPath, StmtGroupB, StmtGroupBVar, StmtGroupV1, StmtVariable,
     StmtTwoValues, StmtCreateOrder, StmtUpdateItem, StmtListItems, StmtInline, StmtUse,
     StmtHead}

IdleRoutes ==
    /\ groupPaths = <<>>
    /\ groupMiddleware = <<>>
    /\ variables = <<>>
    /\ endpoints = <<>>
    /\ visited = <<>>

\* parseControllerFile before the walk: empty maps, no endpoint.
InitRoutes == IdleRoutes

\* ast.Inspect reaches an assignment: handleAssignment, then the calls below it.
VisitAssign(stmt) ==
    /\ Len(visited) < MaxStmts
    /\ stmt.k = "Assign"
    /\ LET ctx == handleAssignment(ParseContext(groupPaths, groupMiddleware, variables), stmt)
       IN  /\ groupPaths' = ctx.groupPaths
           /\ groupMiddleware' = ctx.groupMiddleware
           /\ variables' = ctx.variables
           /\ endpoints' = endpoints \o inspectExprs(ctx, stmt.lhs \o stmt.rhs)
    /\ visited' = Append(visited, stmt)
    /\ UNCHANGED <<resolverVars, securityVars, assembleVars, registryVars, sharedVars, helperVars>>

\* ast.Inspect reaches an expression statement: the calls in it.
VisitCall(stmt) ==
    /\ Len(visited) < MaxStmts
    /\ stmt.k = "Expr"
    /\ endpoints' = endpoints
            \o inspectExpr(ParseContext(groupPaths, groupMiddleware, variables), stmt.x)
    /\ visited' = Append(visited, stmt)
    /\ UNCHANGED <<groupPaths, groupMiddleware, variables>>
    /\ UNCHANGED <<resolverVars, securityVars, assembleVars, registryVars, sharedVars, helperVars>>

NextRoutes ==
    \/ \E stmt \in Stmts : VisitAssign(stmt)
    \/ \E stmt \in Stmts : VisitCall(stmt)

----------------------------------------------------------------------------
(* What the enhancer and the assembler make of a raw endpoint's method and *)
(* path.                                                                   *)

\* strings.ToUpper on the verb names the extractor accepts.
ToUpper(s) ==
    [i \in 1..Len(s) |->
        CASE s[i] = "Get" -> "GET"
          [] s[i] = "Post" -> "POST"
          [] s[i] = "Put" -> "PUT"
          [] s[i] = "Delete" -> "DELETE"
          [] s[i] = "Patch" -> "PATCH"
          [] s[i] = "Head" -> "HEAD"
          [] s[i] = "Options" -> "OPTIONS"
          [] OTHER -> s[i]]

\* OpenAPISpec.normalizePath: every segment :name becomes {name}.
OpenAPISpec_normalizePath(path) ==
    Join([i \in 1..Len(Split(path, "/")) |->
            IF HasPrefix(Split(path, "/")[i], <<":">>)
            THEN <<"{">> \o TrimPrefix(Split(path, "/")[i], <<":">>) \o <<"}">>
            ELSE Split(path, "/")[i]],
         <<"/">>)

----------------------------------------------------------------------------
(* Properties of the route extraction.                                     *)

RECURSIVE VariablesAt(_)
\* ctx.variables after the statements of `history`.
VariablesAt(history) ==
    IF history = <<>> THEN <<>>
    ELSE IF Last(history).k = "Assign"
    THEN handleAssignment(ParseContext(<<>>, <<>>, VariablesAt(SubSeq(history, 1, Len(history) - 1))),
                          Last(history)).variables
    ELSE VariablesAt(SubSeq(history, 1, Len(history) - 1))

\* stmt is `name := <ident>.Group(...)`.
AssignsGroup(stmt, name) ==
    /\ stmt.k = "Assign"
    /\ stmt.lhs = <<Ident(name)>>
    /\ Len(stmt.rhs) = 1
    /\ stmt.rhs[1].k = "Call"
    /\ stmt.rhs[1].fun.k = "Selector"
    /\ stmt.rhs[1].fun.sel = <<"Group">>
    /\ stmt.rhs[1].fun.x.k = "Ident"

RECURSIVE InheritedMiddleware(_, _)
\* The middleware a call on `name` inherits after `history`: that of the group
\* call `name` was last assigned from, after that of its ancestors.
InheritedMiddleware(history, name) ==
    IF \E i \in 1..Len(history) : AssignsGroup(history[i], name)
    THEN LET i == CHOOSE k \in 1..Len(history) :
                    /\ AssignsGroup(history[k], name)
                    /\ \A j \in (k + 1)..Len(history) : ~AssignsGroup(history[j], name)
         IN  AppendMiddleware(VariablesAt(SubSeq(history, 1, i - 1)),
                              InheritedMiddleware(SubSeq(history, 1, i - 1),
                                                  history[i].rhs[1].fun.x.name),
                              Tail(history[i].rhs[1].args))
    ELSE <<>>

\* The latest statement registered an endpoint on the receiver `name`.
EndpointOn(name) ==
    /\ visited # <<>>
    /\ Last(visited).k = "Expr"
    /\ Last(visited).x.fun.x = Ident(name)
    /\ isHTTPMethod(Last(visited).x.fun.sel)
    /\ Len(Last(visited).x.args) >= 2
    /\ endpoints # <<>>

\* C7 (as claimed): an endpoint registered on a group carries the middleware of
\* the group calls from the outermost ancestor down to its own group, then the
\* middleware of the endpoint call itself, in that order and complete.
C7_AncestorMiddleware ==
    \A name \in {<<"root">>, <<"a">>, <<"b">>} :
        EndpointOn(name) =>
            Last(endpoints).Middleware =
                AppendMiddleware(VariablesAt(visited),
                                 InheritedMiddleware(visited, name),
                                 SubSeq(Last(visited).x.args, 2,
                                        Len(Last(visited).x.args) - 1))

\* The prefix the group b gives its endpoints.
PrefixOfB ==
    IF <<"b">> \in DOMAIN groupPaths THEN TrimSuffix(groupPaths[<<"b">>], <<"/">>) ELSE <<>>

\* C8 (amended): for b.Post("/orders/:id", authCheck,
\* hasPermission("orders:write"), CreateOrder) the raw endpoint has the method as
\* written (Post), the path <groupPrefix>/orders/:id and the handler CreateOrder;
\* upper-casing the method gives POST and the assembler's path normalisation
\* gives <groupPrefix>/orders/{id}.  Every raw endpoint carries a verb name as
\* written and no {name} segment.
C8_RawEndpointAsWritten ==
    /\ (visited # <<>> /\ Last(visited) = StmtCreateOrder) =>
          /\ endpoints # <<>>
          /\ Last(endpoints).Method = <<"Post">>
          /\ Last(endpoints).Path = PrefixOfB \o PathOrders
          /\ Last(endpoints).Handler = <<"CreateOrder">>
          /\ Last(Last(endpoints).Middleware)
                = <<"hasPermission", "(", "\"", "orders:write", "\"", ")">>
          /\ ToUpper(Last(endpoints).Method) = <<"POST">>
          /\ OpenAPISpec_normalizePath(Last(endpoints).Path)
                = PrefixOfB \o <<"/", "orders", "/", "{", "id", "}">>
    /\ \A i \in 1..Len(endpoints) :
          /\ isHTTPMethod(endpoints[i].Method)
          /\ ~Contains(endpoints[i].Path, "{")

\* C8 witness: the call registered on the group b nested in a and root.
C8_Witness ==
    /\ visited = <<StmtRoot, StmtGroupA, StmtGroupB, StmtCreateOrder>>
    /\ Last(endpoints).Path = <<"/", "api", "/", "a", "/", "b">> \o PathOrders
    /\ Last(endpoints).Method = <<"Post">>

\* C8 (as claimed): the raw endpoint of that call has method POST, path
\* <groupPrefix>/orders/{id} and handler CreateOrder.
C8_RawEndpointNormalized ==
    (visited # <<>> /\ Last(visited) = StmtCreateOrder) =>
        /\ endpoints # <<>>
        /\ Last(endpoints).Method = <<"POST">>
        /\ Last(endpoints).Path = PrefixOfB \o <<"/", "orders", "/", "{", "id", "}">>
        /\ Last(endpoints).Handler = <<"CreateOrder">>

----------------------------------------------------------------------------
(* Handler functions of a controller directory (go/ast, as far as the      *)
(* analyzer looks at them).                                                 *)
(*   function   : [recv, doc, body]  recv: the receiver's type expression,  *)
(*                zero or one; doc: the lines of the doc comment; body: the *)
(*                statements in the order ast.Inspect reaches them          *)
(*   statement  : [k |-> "Var", names, type, values] |                      *)
(*                [k |-> "Assign", tok, lhs, rhs] | [k |-> "Expr", x] |     *)
(*                [k |-> "Return", results]                                 *)
(*   expression : as for the route extractor, and                           *)
(*                [k |-> "CompositeLit", type] | [k |-> "Unary", op, x] |   *)
(*                [k |-> "Star", x]                                         *)

CompositeLit(type) == [k |-> "CompositeLit", type |-> type]
UnaryExpr(op, x) == [k |-> "Unary", op |-> op, x |-> x]
FuncDecl(recv, doc, body) == [recv |-> recv, doc |-> doc, body |-> body]
VarStmt(names, type, values) == [k |-> "Var", names |-> names, type |-> type, values |-> values]
DefineStmt(lhs, rhs) == [k |-> "Assign", tok |-> ":=", lhs |-> lhs, rhs |-> rhs]
ReturnStmt(results) == [k |-> "Return", results |-> results]

\* analyzerContext.extractTypeName
extractTypeName(typeExpr) ==
    CASE typeExpr.k = "Ident" -> typeExpr.name
      [] typeExpr.k = "Selector" /\ typeExpr.x.k = "Ident" ->
            typeExpr.x.name \o <<".">> \o typeExpr.sel
      [] typeExpr.k = "Selector" /\ typeExpr.x.k # "Ident" -> typeExpr.sel
      [] OTHER -> <<>>

\* analyzerContext.extractReceiverType
extractReceiverType(funcDecl) ==
    CASE funcDecl.recv = <<>> -> <<>>
      [] funcDecl.recv # <<>> /\ funcDecl.recv[1].k = "Star"
            /\ funcDecl.recv[1].x.k = "Ident" -> funcDecl.recv[1].x.name
      [] funcDecl.recv # <<>> /\ funcDecl.recv[1].k = "Ident" -> funcDecl.recv[1].name
      [] OTHER -> <<>>

\* analyzerContext.getControllerFieldType: the field's type, as zero or one.
getControllerFieldType(fields, controllerType, fieldName) ==
    IF controllerType \o <<".">> \o fieldName \in DOMAIN fields
    THEN <<fields[controllerType \o <<".">> \o fieldName]>>
    ELSE <<>>

\* The first return type of a method that is not an error, "" when none.
firstNonError(returnTypes) ==
    IF SelectSeq(returnTypes, LAMBDA rt : rt # <<"error">> /\ ~HasSuffix(rt, <<".", "error">>)) = <<>>
    THEN <<>>
    ELSE Head(SelectSeq(returnTypes,
                        LAMBDA rt : rt # <<"error">> /\ ~HasSuffix(rt, <<".", "error">>)))

\* business_layer.go:266-271  the layers the loop over r.layers can stop at
layersNamed(registry, typeName) ==
    {registry[key] : key \in {k \in DOMAIN registry : registry[k].TypeName = typeName}}

\* The layer GetMethodReturnType looks the method up in, as zero or one: the
\* one registered as package.Type, else one whose TypeName is typeName.
layerOf(registry, packageName, typeName) ==
    IF packageName \o <<".">> \o typeName \in DOMAIN registry
    THEN <<registry[packageName \o <<".">> \o typeName]>>
    ELSE IF layersNamed(registry, typeName) # {}
    THEN <<CHOOSE info \in layersNamed(registry, typeName) : TRUE>>
    ELSE <<>>

\* BusinessLayerRegistry.GetMethodReturnType
GetMethodReturnType(registry, packageName, typeName, methodName) ==
    IF layerOf(registry, packageName, typeName) = <<>> THEN <<>>
    ELSE IF methodName \notin DOMAIN layerOf(registry, packageName, typeName)[1].Methods THEN <<>>
    ELSE firstNonError(layerOf(registry, packageName, typeName)[1].Methods[methodName])

\* BusinessLayerRegistry.LookupMethodByFieldType
LookupMethodByFieldType(registry, fieldType, methodName) ==
    LET parts == Split(TrimPrefix(fieldType, <<"*">>), ".")
    IN  IF Len(parts) # 2 THEN <<>>
        ELSE GetMethodReturnType(registry, parts[1], parts[2], methodName)

\* The registry lookup shared by inferTypeFromExprWithVars and
\* inferResponseTypeFromCall for a call receiver.field.method(...): the
\* method's return type, "" when the field or the method is not known.
registeredReturnType(ac, sel, receiverType) ==
    IF sel.x.k = "Selector"
       /\ getControllerFieldType(ac.controllerFields, receiverType, sel.x.sel) # <<>>
    THEN LookupMethodByFieldType(ac.layers,
            getControllerFieldType(ac.controllerFields, receiverType, sel.x.sel)[1], sel.sel)
    ELSE <<>>

\* analyzerContext.inferTypeFromExpr
inferTypeFromExpr(expr) ==
    CASE expr.k = "CompositeLit" -> extractTypeName(expr.type)
      [] expr.k = "Call" /\ expr.fun.k = "Ident" -> expr.fun.name
      [] expr.k = "Call" /\ expr.fun.k = "Selector" -> expr.fun.sel
      [] expr.k = "Ident" -> expr.name
      [] OTHER -> <<"object">>

RECURSIVE tryFindResponseType(_, _)
\* analyzerContext.tryFindResponseType
tryFindResponseType(baseName, suffixes) ==
    IF suffixes = <<>> THEN baseName
    ELSE IF baseName \o Head(suffixes) # <<>> THEN baseName \o Head(suffixes)
    ELSE tryFindResponseType(baseName, Tail(suffixes))

\* The name patterns of inferResponseTypeFromCall (part_004:956-979).
responseTypeByName(methodName) ==
    CASE HasPrefix(methodName, <<"Create">>) ->
            tryFindResponseType(TrimPrefix(methodName, <<"Create">>),
                                <<<<"Response">>, <<"View">>, <<>>>>)
      [] HasPrefix(methodName, <<"Update">>) ->
            tryFindResponseType(TrimPrefix(methodName, <<"Update">>),
                                <<<<"Response">>, <<"View">>, <<>>>>)
      [] HasPrefix(methodName, <<"Get">>) ->
            tryFindResponseType(TrimPrefix(methodName, <<"Get">>),
                                <<<<"Response">>, <<"View">>, <<>>>>)
      [] HasPrefix(methodName, <<"List">>) ->
            tryFindResponseType(TrimPrefix(methodName, <<"List">>),
                                <<<<"List", "Response">>, <<"List">>, <<"Response">>>>)
      [] OTHER -> tryFindResponseType(methodName, <<<<"Response">>, <<>>>>)

\* analyzerContext.inferResponseTypeFromCall
inferResponseTypeFromCall(ac, call, receiverType) ==
    IF call.fun.k # "Selector" THEN <<>>
    ELSE IF registeredReturnType(ac, call.fun, receiverType) # <<>>
    THEN registeredReturnType(ac, call.fun, receiverType)
    ELSE responseTypeByName(call.fun.sel)

RECURSIVE inferTypeFromExprWithVars(_, _, _, _)
\* analyzerContext.inferTypeFromExprWithVars
inferTypeFromExprWithVars(ac, expr, varTypes, receiverType) ==
    CASE expr.k = "CompositeLit" -> extractTypeName(expr.type)
      [] expr.k = "Call" /\ expr.fun.k = "Selector" ->
            IF registeredReturnType(ac, expr.fun, receiverType) # <<>>
            THEN registeredReturnType(ac, expr.fun, receiverType)
            ELSE expr.fun.sel
      [] expr.k = "Call" /\ expr.fun.k = "Ident" -> expr.fun.name
      [] expr.k = "Ident" ->
            IF expr.name \in DOMAIN varTypes THEN varTypes[expr.name] ELSE expr.name
      [] expr.k = "Unary" /\ expr.op = "&" ->
            inferTypeFromExprWithVars(ac, expr.x, varTypes, receiverType)
      [] OTHER -> <<"object">>

\* analyzerContext.extractTypeFromUnaryExpr
extractTypeFromUnaryExpr(expr, varTypes) ==
    CASE expr.k # "Unary" -> <<>>
      [] expr.k = "Unary" /\ expr.op # "&" -> <<>>
      [] expr.k = "Unary" /\ expr.op = "&" /\ expr.x.k = "CompositeLit" ->
            extractTypeName(expr.x.type)
      [] expr.k = "Unary" /\ expr.op = "&" /\ expr.x.k = "Ident" ->
            IF expr.x.name \in DOMAIN varTypes THEN varTypes[expr.x.name] ELSE expr.x.name
      [] OTHER -> <<>>

RECURSIVE analyzerContext_cleanTypeName(_)
\* analyzerContext.cleanTypeName
analyzerContext_cleanTypeName(typeName) ==
    IF Contains(typeName, "[") /\ Index(typeName, "[") # 0 /\ LastIndex(typeName, "]") # 0
       /\ LastIndex(typeName, "]") > Index(typeName, "[")
    THEN analyzerContext_cleanTypeName(
            TrimPrefix(SubSeq(typeName, Index(typeName, "[") + 1, LastIndex(typeName, "]") - 1),
                       <<"[", "]">>))
    ELSE IF Len(Split(typeName, ".")) > 1 THEN Last(Split(typeName, "."))
    ELSE typeName

\* analyzerContext.isIntegerLiteral
noIntegerLiteral(expr) == FALSE
isIntegerLiteral(expr) == expr.k = "BasicLit" /\ expr.kind = "INT"

\* analyzerContext.extractIntegerLiteral
extractIntegerLiteral(expr) ==
    IF expr.k = "BasicLit" /\ expr.kind = "INT" THEN expr.value ELSE <<>>

\* analyzerContext.inferParamSchema
inferParamSchema(methodName) ==
    CASE methodName = <<"Params", "UID">> -> TypeFormatSchema("string", "uuid")
      [] methodName = <<"Params", "Uint64">> -> TypeFormatSchema("integer", "uint64")
      [] methodName = <<"Params", "Int">> -> TypeFormatSchema("integer", "int64")
      [] OTHER -> TypeSchema("string")

----------------------------------------------------------------------------
(* The enhancer (analyzer): from a raw endpoint to an EndpointSpec.        *)
(*   ac : [functions, controllerFields, layers, msName], the analyzer      *)
(*        context after parseDirectoryFiles and the business layer scan     *)
(* Maps are functions, an absent key is a key outside the DOMAIN; a status  *)
(* code is its digits.                                                      *)

ResponseSpec(description, contentType, schema) ==
    [Description |-> description, ContentType |-> contentType, Schema |-> schema]

ParameterSpec(name, in, required, description, schema) ==
    [Name |-> name, In |-> in, Required |-> required, Description |-> description,
     Schema |-> schema]

\* The schema of an error body: an object with the one property `error`.
ErrorSchema ==
    [TypeSchema("object") EXCEPT !.Properties = (<<"error">> :> TypeSchema("string"))]

\* part_004:512-533  a path parameter read by ctx.Params / http.ParamsUID / ...
callParameter(call, spec) ==
    LET argIndex == IF call.fun.sel # <<"Params">> THEN 2 ELSE 1
    IN  IF Len(call.args) > 0 /\ argIndex <= Len(call.args)
           /\ extractStringLiteral(call.args[argIndex]) # <<>>
        THEN [spec EXCEPT !.Parameters =
                Append(@, ParameterSpec(extractStringLiteral(call.args[argIndex]), "path", TRUE,
                          <<"Path parameter: ">> \o extractStringLiteral(call.args[argIndex]),
                          inferParamSchema(call.fun.sel)))]
        ELSE spec

\* part_004:535-550  the request body of serializer.DeserializeFromFn(fn, &req)
callRequestBody(call, spec, varTypes) ==
    IF Len(call.args) >= 2 /\ extractTypeFromUnaryExpr(call.args[2], varTypes) # <<>>
    THEN [spec EXCEPT !.RequestBody =
            <<[Description |-> "Request body", Required |-> TRUE,
               ContentType |-> "application/json",
               Schema |-> RefSchema(analyzerContext_cleanTypeName(
                              extractTypeFromUnaryExpr(call.args[2], varTypes)))]>>]
    ELSE spec

\* part_004:585-624  the response of a call that carries the data argument dataArg
dataResponse(ac, dataArg, varTypes, receiverType) ==
    LET cleanedTypeName ==
            analyzerContext_cleanTypeName(
                inferTypeFromExprWithVars(ac, dataArg, varTypes, receiverType))
    IN  IF dataArg.k = "Ident" /\ dataArg.name = <<"err">>
        THEN ResponseSpec("Error response", "application/json", ErrorSchema)
        ELSE IF cleanedTypeName # <<>> /\ cleanedTypeName # <<"object">>
        THEN ResponseSpec("Successful response", "application/json", RefSchema(cleanedTypeName))
        ELSE ResponseSpec("Successful response", "application/json", TypeSchema("object"))

\* part_004:552-633  http.Response(ctx[, statusCode][, data])
callResponse(ac, call, spec, varTypes, receiverType) ==
    CASE Len(call.args) < 2 ->
            [spec EXCEPT !.Responses =
                (<<"2", "0", "4">> :> ResponseSpec("No content", "", SchemaSpec0)) @@ @]
      [] Len(call.args) >= 3 /\ isIntegerLiteral(call.args[2]) ->
            [spec EXCEPT !.Responses =
                (extractIntegerLiteral(call.args[2])
                    :> dataResponse(ac, call.args[3], varTypes, receiverType)) @@ @]
      [] Len(call.args) = 2 /\ isIntegerLiteral(call.args[2]) ->
            [spec EXCEPT !.Responses =
                (extractIntegerLiteral(call.args[2])
                    :> ResponseSpec("Successful response", "application/json",
                          [TypeSchema("string") EXCEPT !.Description = <<"Returns \"Ok\"">>]))
                @@ @]
      [] OTHER ->
            [spec EXCEPT !.Responses =
                (<<"2", "0", "0">> :> dataResponse(ac, call.args[2], varTypes, receiverType))
                @@ @]

\* analyzerContext.analyzeCallExpr: the spec after the call has been looked at.
analyzeCallExpr(ac, call, spec, varTypes, receiverType) ==
    CASE call.fun.k # "Selector" -> spec
      [] call.fun.k = "Selector"
            /\ call.fun.sel \in {<<"Params">>, <<"Params", "UID">>, <<"Params", "Uint64">>,
                                 <<"Params", "Int">>} ->
            callParameter(call, spec)
      [] call.fun.k = "Selector" /\ call.fun.sel = <<"DeserializeFromFn">> ->
            callRequestBody(call, spec, varTypes)
      [] call.fun.k = "Selector" /\ call.fun.sel = <<"Response">> ->
            callResponse(ac, call, spec, varTypes, receiverType)
      [] call.fun.k = "Selector" /\ call.fun.sel = <<"ParseQueryParameters">> ->
            [spec EXCEPT !.Parameters =
                Append(@, ParameterSpec(<<"query">>, "query", FALSE,
                          <<"Query parameters for filtering, sorting, and pagination">>,
                          TypeSchema("object")))]
      [] call.fun.k = "Selector" /\ call.fun.sel = <<"APIError">> ->
            IF <<"4", "0", "0">> \in DOMAIN spec.Responses THEN spec
            ELSE [spec EXCEPT !.Responses =
                    (<<"4", "0", "0">> :> ResponseSpec("Bad request or error response",
                                                       "application/json", ErrorSchema)) @@ @]
      [] OTHER -> spec

RECURSIVE varSpecTypes(_, _, _)
\* part_004:432-447  `var names type = values`, from name i on
varSpecTypes(stmt, i, varTypes) ==
    IF i > Len(stmt.names) THEN varTypes
    ELSE varSpecTypes(stmt, i + 1,
            IF stmt.type # <<>>
            THEN (stmt.names[i] :> extractTypeName(stmt.type[1])) @@ varTypes
            ELSE IF i <= Len(stmt.values)
            THEN (stmt.names[i] :> inferTypeFromExpr(stmt.values[i])) @@ varTypes
            ELSE varTypes)

RECURSIVE pairedTypes(_, _, _)
\* part_004:473-486  `lhs := rhs` taken pairwise, from position i on
pairedTypes(stmt, i, varTypes) ==
    IF i > Len(stmt.lhs) THEN varTypes
    ELSE pairedTypes(stmt, i + 1,
            IF stmt.lhs[i].k = "Ident" /\ i <= Len(stmt.rhs)
            THEN (stmt.lhs[i].name :> inferTypeFromExpr(stmt.rhs[i])) @@ varTypes
            ELSE varTypes)

\* part_004:453-470  `lhs := call(...)`: the first variable that is neither
\* err nor _ gets the type inferred for the call.
calledType(ac, stmt, varTypes, receiverType) ==
    LET targets == SelectSeq(stmt.lhs, LAMBDA e : e.k = "Ident" /\ e.name # <<"err">>
                                                  /\ e.name # <<"_">>)
    IN  IF targets = <<>> THEN varTypes
        ELSE IF inferResponseTypeFromCall(ac, stmt.rhs[1], receiverType) # <<>>
        THEN (Head(targets).name :> inferResponseTypeFromCall(ac, stmt.rhs[1], receiverType))
             @@ varTypes
        ELSE (Head(targets).name :> inferTypeFromExpr(stmt.rhs[1])) @@ varTypes

\* The first pass of analyzeFunctionBody on one statement.
declaredTypes(ac, stmt, varTypes, receiverType) ==
    CASE stmt.k = "Var" -> varSpecTypes(stmt, 1, varTypes)
      [] stmt.k = "Assign" /\ stmt.tok = ":=" /\ Len(stmt.rhs) = 1 /\ stmt.rhs[1].k = "Call" ->
            calledType(ac, stmt, varTypes, receiverType)
      [] stmt.k = "Assign" /\ stmt.tok = ":="
            /\ ~(Len(stmt.rhs) = 1 /\ stmt.rhs[1].k = "Call") ->
            pairedTypes(stmt, 1, varTypes)
      [] OTHER -> varTypes

RECURSIVE collectVarTypes(_, _, _, _)
\* The first pass of analyzeFunctionBody: varTypes after the statements.
collectVarTypes(ac, body, varTypes, receiverType) ==
    IF body = <<>> THEN varTypes
    ELSE collectVarTypes(ac, Tail(body),
                         declaredTypes(ac, Head(body), varTypes, receiverType), receiverType)

RECURSIVE callsIn(_)
RECURSIVE callsInAll(_)
\* The call expressions under an expression, in the order ast.Inspect
\* reaches them.
callsIn(expr) ==
    CASE expr.k = "Call" -> <<expr>> \o callsIn(expr.fun) \o callsInAll(expr.args)
      [] expr.k = "Selector" -> callsIn(expr.x)
      [] expr.k = "Unary" -> callsIn(expr.x)
      [] OTHER -> <<>>

callsInAll(exprs) ==
    IF exprs = <<>> THEN <<>> ELSE callsIn(Head(exprs)) \o callsInAll(Tail(exprs))

\* The call expressions of one statement.
callsOf(stmt) ==
    CASE stmt.k = "Var" -> callsInAll(stmt.values)
      [] stmt.k = "Assign" -> callsInAll(stmt.lhs \o stmt.rhs)
      [] stmt.k = "Expr" -> callsIn(stmt.x)
      [] stmt.k = "Return" -> callsInAll(stmt.results)
      [] OTHER -> <<>>

RECURSIVE callsOfBody(_)
callsOfBody(body) ==
    IF body = <<>> THEN <<>> ELSE callsOf(Head(body)) \o callsOfBody(Tail(body))

RECURSIVE analyzeCalls(_, _, _, _, _)
\* The second pass of analyzeFunctionBody: analyzeCallExpr on every call.
analyzeCalls(ac, calls, spec, varTypes, receiverType) ==
    IF calls = <<>> THEN spec
    ELSE analyzeCalls(ac, Tail(calls),
                      analyzeCallExpr(ac, Head(calls), spec, varTypes, receiverType),
                      varTypes, receiverType)

\* analyzerContext.analyzeFunctionBody
analyzeFunctionBody(ac, body, spec, receiverType) ==
    analyzeCalls(ac, callsOfBody(body), spec,
                 collectVarTypes(ac, body, <<>>, receiverType), receiverType)

\* The upper-case first letter formatTagName gives a part, on the segment
\* names routes are written with.
Capitalized(tok) ==
    CASE tok = "feeds" -> "Feeds"
      [] tok = "orders" -> "Orders"
      [] tok = "user" -> "User"
      [] tok = "profiles" -> "Profiles"
      [] tok = "ping" -> "Ping"
      [] OTHER -> tok

RECURSIVE tagParts(_, _)
\* part_004:394-409  the non-empty parts of a segment between `-` and `_`
tagParts(segment, current) ==
    IF segment = <<>> THEN IF current # <<>> THEN <<current>> ELSE <<>>
    ELSE IF Head(segment) \in {"-", "_"}
    THEN (IF current # <<>> THEN <<current>> ELSE <<>>) \o tagParts(Tail(segment), <<>>)
    ELSE tagParts(Tail(segment), Append(current, Head(segment)))

\* formatTagName
formatTagName(segment) ==
    Join([i \in 1..Len(tagParts(segment, <<>>)) |->
            <<Capitalized(tagParts(segment, <<>>)[i][1])>> \o Tail(tagParts(segment, <<>>)[i])],
         <<" ">>)

\* extractPathPrefix
extractPathPrefix(path) ==
    LET trimmedPath == TrimPrefix(path, <<"/">>)
        firstSegment == IF Index(trimmedPath, "/") = 0 THEN trimmedPath
                        ELSE SubSeq(trimmedPath, 1, Index(trimmedPath, "/") - 1)
    IN  IF trimmedPath = <<>> \/ HasPrefix(firstSegment, <<":">>) \/ Len(firstSegment) = 0
        THEN <<>>
        ELSE formatTagName(firstSegment)

\* analyzerContext.assignTags
assignTags(ac, path) ==
    IF extractPathPrefix(path) = <<>> THEN <<ac.msName>> ELSE <<extractPathPrefix(path)>>

\* analyzerContext.extractPathParameters
extractPathParameters(path) ==
    LET parts == SelectSeq(Split(path, "/"), LAMBDA part : HasPrefix(part, <<":">>))
    IN  [i \in 1..Len(parts) |->
            ParameterSpec(TrimPrefix(parts[i], <<":">>), "path", TRUE,
                          <<"Path parameter: ">> \o TrimPrefix(parts[i], <<":">>),
                          TypeSchema("string"))]

\* extractComments: the non-empty texts of the comment lines.
extractComments(doc) ==
    SelectSeq([i \in 1..Len(doc) |->
                TrimSpace(TrimSuffix(TrimSpace(TrimPrefix(TrimSpace(TrimPrefix(doc[i],
                    <<"//">>)), <<"/*">>)), <<"*/">>))],
              LAMBDA text : text # <<>>)

\* part_004:305-314  summary and description from the doc comment
documented(spec, handlerFunc) ==
    LET comments == extractComments(handlerFunc.doc)
    IN  IF Len(comments) > 1
        THEN [spec EXCEPT !.Summary = comments[1],
                          !.Description = Join(Tail(comments), <<"\n">>)]
        ELSE IF Len(comments) > 0 THEN [spec EXCEPT !.Summary = comments[1]]
        ELSE spec

\* part_004:322-333  the path parameters the body did not name
withPathParameters(spec) ==
    [spec EXCEPT !.Parameters = @ \o
        SelectSeq(extractPathParameters(spec.Path),
                  LAMBDA pathParam : \A i \in 1..Len(spec.Parameters) :
                                        spec.Parameters[i].Name # pathParam.Name)]

\* part_004:334-341  the default response of a handler that sets none
withDefaultResponse(spec) ==
    IF DOMAIN spec.Responses = {}
    THEN [spec EXCEPT !.Responses =
            (<<"2", "0", "0">> :> ResponseSpec("Successful response", "application/json",
                                               TypeSchema("object")))]
    ELSE spec

\* part_004:298-344  enhanceEndpoint once the handler function is found
analyzedHandler(ac, spec, handlerFunc) ==
    withDefaultResponse(withPathParameters(
        analyzeFunctionBody(ac, handlerFunc.body,
                            documented([spec EXCEPT !.HandlerFunction = <<handlerFunc>>],
                                       handlerFunc),
                            extractReceiverType(handlerFunc))))

\* part_004:276-287  the spec before the handler is looked up
basicSpec(ac, basic) ==
    [Path |-> basic.Path, Method |-> ToUpper(basic.Method), Handler |-> basic.Handler,
     MSName |-> ac.msName, Middleware |-> basic.Middleware,
     Tags |-> assignTags(ac, basic.Path), Parameters |-> <<>>, Responses |-> <<>>,
     RequestBody |-> <<>>, Summary |-> <<>>, Description |-> <<>>,
     HandlerFunction |-> <<>>, Security |-> extractSecurity(basic.Middleware)]

\* analyzerContext.enhanceEndpoint
enhanceEndpoint(ac, basic) ==
    IF basic.Handler \notin DOMAIN ac.functions
    THEN basicSpec(ac, basic)
    ELSE analyzedHandler(ac, basicSpec(ac, basic), ac.functions[basic.Handler])

----------------------------------------------------------------------------
(* The assembler (generator.go): the OpenAPI document.                     *)
(*   document : [Paths, Tags, Schemas, SecuritySchemes, collectedScopes]   *)
(*   Paths    : path -> PathItemSpec, a function method -> OperationSpec   *)
(*              on the methods the item has an operation for               *)
(*   Content  : content type -> [Schema], <<>> when the map is nil          *)

\* strings.ToLower on the method names the enhancer produces.
ToLower(s) ==
    [i \in 1..Len(s) |->
        CASE s[i] = "GET" -> "get"
          [] s[i] = "POST" -> "post"
          [] s[i] = "PUT" -> "put"
          [] s[i] = "DELETE" -> "delete"
          [] s[i] = "PATCH" -> "patch"
          [] s[i] = "HEAD" -> "head"
          [] s[i] = "OPTIONS" -> "options"
          [] OTHER -> s[i]]

\* OpenAPISpec.generateOperationID
generateOperationID(endpoint) ==
    ToLower(endpoint.Method) \o <<"_">>
        \o TrimSuffix(TrimPrefix(endpoint.Handler, <<"*">>), <<"Controller">>)

\* The wrapper of a success response: an object with the one property `data`.
DataWrapper(schema) == [TypeSchema("object") EXCEPT !.Properties = (<<"data">> :> schema)]

\* wrapResponseSchema
wrapEverything(schema, statusCode) == DataWrapper(schema)
wrapResponseSchema(schema, statusCode) ==
    IF HasPrefix(statusCode, <<"4">>) \/ HasPrefix(statusCode, <<"5">>)
    THEN schema
    ELSE DataWrapper(schema)

MediaTypeSpec(schema) == [Schema |-> schema]

\* generator.go:328-347  the ResponseRef of one response of the endpoint
responseRef(response, code) ==
    [Description |-> response.Description,
     Content |-> IF response.ContentType # ""
                 THEN (response.ContentType
                        :> MediaTypeSpec(wrapResponseSchema(response.Schema, code)))
                 ELSE <<>>]

\* generator.go:349-364  the response added when the endpoint has no 400
BadRequest ==
    [Description |-> "Bad Request",
     Content |-> ("application/json" :> MediaTypeSpec(ErrorSchema))]

\* generator.go:349-364  `if _, exists := operation.Responses["400"]; !exists`
asDefined(responses) == responses
withBadRequest(responses) ==
    IF <<"4", "0", "0">> \in DOMAIN responses THEN responses
    ELSE (<<"4", "0", "0">> :> BadRequest) @@ responses

\* OpenAPISpec.createOperation
createOperation(endpoint) ==
    [Tags |-> endpoint.Tags,
     Summary |-> endpoint.Summary,
     Description |-> endpoint.Description,
     OperationID |-> generateOperationID(endpoint),
     Parameters |-> endpoint.Parameters,
     RequestBody |->
        IF endpoint.RequestBody # <<>>
        THEN <<[Description |-> endpoint.RequestBody[1].Description,
                Required |-> endpoint.RequestBody[1].Required,
                Content |-> (endpoint.RequestBody[1].ContentType
                                :> MediaTypeSpec(endpoint.RequestBody[1].Schema))]>>
        ELSE <<>>,
     Responses |->
        withBadRequest([code \in DOMAIN endpoint.Responses |->
                            responseRef(endpoint.Responses[code], code)]),
     Security |->
        [i \in 1..Len(endpoint.Security) |->
            (endpoint.Security[i].Name :> endpoint.Security[i].Scopes)]]

RECURSIVE addTag(_, _)
\* OpenAPISpec.addTag, with the description of generateTagDescription
addTag(tags, newTags) ==
    IF newTags = <<>> THEN tags
    ELSE addTag(IF \E j \in 1..Len(tags) : tags[j].Name = Head(newTags) THEN tags
                ELSE Append(tags, [Name |-> Head(newTags),
                                   Description |-> Head(newTags) \o <<" related endpoints">>]),
                Tail(newTags))

\* The methods a PathItemSpec has a field for.
ItemMethods ==
    {<<"get">>, <<"post">>, <<"put">>, <<"delete">>, <<"patch">>, <<"options">>, <<"head">>}

\* generator.go:208-236  the path item after the operation is put on it
withOperationOnly(paths, path, method, operation) ==
    (path :> (IF method \in ItemMethods THEN (method :> operation) ELSE <<>>)) @@ paths
withOperation(paths, path, method, operation) ==
    LET pathItem == IF path \in DOMAIN paths THEN paths[path] ELSE <<>>
    IN  (path :> (IF method \in ItemMethods THEN (method :> operation) @@ pathItem
                  ELSE pathItem)) @@ paths

\* AddEndpoint without the collection of scopes.
scopesDropped(requirements) == {}

RECURSIVE scopesOf(_)
\* generator.go:244-249  the scopes of the endpoint's security requirements
scopesOf(requirements) ==
    IF requirements = <<>> THEN {}
    ELSE {Head(requirements).Scopes[i] : i \in 1..Len(Head(requirements).Scopes)}
         \cup scopesOf(Tail(requirements))

\* OpenAPISpec.AddEndpoint
OpenAPISpec_AddEndpoint(s, endpoint) ==
    [s EXCEPT
        !.Paths = withOperation(@, OpenAPISpec_normalizePath(endpoint.Path),
                                ToLower(endpoint.Method), createOperation(endpoint)),
        !.Tags = addTag(@, endpoint.Tags),
        !.collectedScopes = @ \cup scopesOf(endpoint.Security)]

RECURSIVE collectTypeRefFromSingleSchema(_)
\* OpenAPISpec.collectTypeRefFromSingleSchema: the names after the last `/`
\* of the $ref of the schema, of its properties and of its items.
collectTypeRefFromSingleSchema(schema) ==
    (IF schema.Ref # <<>> THEN {Last(Split(schema.Ref, "/"))} ELSE {})
    \cup UNION {collectTypeRefFromSingleSchema(schema.Properties[name]) :
                    name \in DOMAIN schema.Properties}
    \cup UNION {collectTypeRefFromSingleSchema(schema.Items[i]) : i \in 1..Len(schema.Items)}

\* OpenAPISpec.collectTypeRefsFromSchema
collectTypeRefsFromSchema(content) ==
    UNION {collectTypeRefFromSingleSchema(content[mediaType].Schema) :
                mediaType \in DOMAIN content}

\* generator.go:517-532  the type references of one operation
operationTypeRefs(op) ==
    UNION {collectTypeRefsFromSchema(op.RequestBody[i].Content) : i \in 1..Len(op.RequestBody)}
    \cup UNION {collectTypeRefsFromSchema(op.Responses[code].Content) :
                    code \in DOMAIN op.Responses}
    \cup UNION {collectTypeRefFromSingleSchema(op.Parameters[i].Schema) :
                    i \in 1..Len(op.Parameters)}

\* OpenAPISpec.collectTypeReferences
collectTypeReferences(s) ==
    UNION {UNION {operationTypeRefs(s.Paths[path][method]) :
                        method \in ItemMethods \cap DOMAIN s.Paths[path]} :
                path \in DOMAIN s.Paths}

RECURSIVE resolveEach(_, _, _)
\* generator.go:467-481  ResolveType on each reference, in the order the map
\* of references is ranged over; the schema returned is dropped.
resolveEach(files, st, typeRefs) ==
    IF typeRefs = <<>> THEN st
    ELSE resolveEach(files, ResolveType(files, st, Head(typeRefs), 1).st, Tail(typeRefs))

\* generator.go:483-491  every schema of the resolver goes into the components
withSchemas(s, resolverSchemas) == [s EXCEPT !.Schemas = resolverSchemas @@ @]

\* The orders a Go map with these keys can be ranged over.
RangeOrders(keys) ==
    {order \in [1..Cardinality(keys) -> keys] :
        \A i, j \in 1..Cardinality(keys) : order[i] = order[j] => i = j}

\* OpenAPISpec.FinalizeSecuritySchemes
finalizeUnconditionally(s, oauthAuthorize, oauthToken) ==
    [s EXCEPT !.SecuritySchemes =
        ("permissions" :>
            [Type |-> "oauth2",
             Description |-> "OAuth2 with permission scopes extracted from middleware",
             AuthorizationURL |-> oauthAuthorize,
             TokenURL |-> oauthToken,
             Scopes |-> [scope \in s.collectedScopes |-> <<"Permission: ">> \o scope]])
        @@ @]
FinalizeSecuritySchemes(s, oauthAuthorize, oauthToken) ==
    IF s.collectedScopes = {} THEN s
    ELSE [s EXCEPT !.SecuritySchemes =
            ("permissions" :>
                [Type |-> "oauth2",
                 Description |-> "OAuth2 with permission scopes extracted from middleware",
                 AuthorizationURL |-> oauthAuthorize,
                 TokenURL |-> oauthToken,
                 Scopes |-> [scope \in s.collectedScopes |-> <<"Permission: ">> \o scope]])
            @@ @]

\* NewOpenAPISpec: no path, no schema, the bearerAuth scheme.
NewOpenAPISpec ==
    [Paths |-> <<>>, Tags |-> <<>>, Schemas |-> <<>>,
     SecuritySchemes |-> ("bearerAuth" :>
        [Type |-> "http", Scheme |-> "bearer", BearerFormat |-> "JWT",
         Description |-> "JWT Bearer token authentication"]),
     collectedScopes |-> {}]

----------------------------------------------------------------------------
(* generateOpenAPISpec as a state machine: the controller files of one     *)
(* directory are analysed one by one (each registers one route), their      *)
(* endpoints are added, then the schemas are resolved and the security      *)
(* schemes finalized.  The handlers are those of a feed controller whose    *)
(* field bl is a business layer; the model packages are a and b.            *)

\* Routes analysed per run.
MaxEndpoints == 2

HttpCall(method, args) == CallExpr(SelectorExpr(Ident(<<"http">>), method), args)
LayerCall(method) ==
    CallExpr(SelectorExpr(SelectorExpr(Ident(<<"c">>), <<"bl">>), method), <<Ident(<<"ctx">>)>>)
OnController(body, doc) == FuncDecl(<<StarOf(Ident(<<"feedController">>))>>, doc, body)

\* func (c *feedController) GetFeed(ctx) error
FnGetFeed ==
    OnController(
        <<DefineStmt(<<Ident(<<"id">>)>>,
                     <<HttpCall(<<"Params", "UID">>, <<Ident(<<"ctx">>), StringLit(<<"id">>)>>)>>),
          DefineStmt(<<Ident(<<"feed">>), Ident(<<"err">>)>>, <<LayerCall(<<"Get", "Feed">>)>>),
          ReturnStmt(<<HttpCall(<<"APIError">>, <<Ident(<<"ctx">>), Ident(<<"err">>)>>)>>),
          ReturnStmt(<<HttpCall(<<"Response">>, <<Ident(<<"ctx">>), Ident(<<"feed">>)>>)>>)>>,
        <<<<"//", " ", "GetFeed returns a feed">>, <<"//">>, <<"//", " ", "by its id">>>>)

\* func (c *feedController) ListFeeds(ctx) error
FnListFeeds ==
    OnController(
        <<ExprStmt(HttpCall(<<"ParseQueryParameters">>, <<Ident(<<"ctx">>)>>)),
          ReturnStmt(<<HttpCall(<<"Response">>,
                                <<Ident(<<"ctx">>), LayerCall(<<"List", "Feeds">>)>>)>>)>>,
        <<>>)

\* func (c *feedController) CreateFeed(ctx) error
FnCreateFeed ==
    OnController(
        <<VarStmt(<<<<"req">>>>, <<SelectorExpr(Ident(<<"a", "_", "models">>), <<"Feed">>)>>, <<>>),
          ExprStmt(CallExpr(SelectorExpr(Ident(<<"serializer">>), <<"DeserializeFromFn">>),
                            <<SelectorExpr(Ident(<<"ctx">>), <<"BodyParser">>),
                              UnaryExpr("&", Ident(<<"req">>))>>)),
          ReturnStmt(<<HttpCall(<<"Response">>,
                                <<Ident(<<"ctx">>), BasicLit("INT", <<"2", "0", "1">>),
                                  Ident(<<"req">>)>>)>>)>>,
        <<<<"/*", " ", "CreateFeed stores a feed", " ", "*/">>>>)

\* func (c *feedController) DeleteFeed(ctx) error
FnDeleteFeed ==
    OnController(
        <<DefineStmt(<<Ident(<<"err">>)>>, <<LayerCall(<<"Delete", "Feed">>)>>),
          ReturnStmt(<<HttpCall(<<"Response">>,
                                <<Ident(<<"ctx">>), BasicLit("INT", <<"4", "0", "4">>),
                                  Ident(<<"err">>)>>)>>),
          ReturnStmt(<<HttpCall(<<"Response">>, <<Ident(<<"ctx">>)>>)>>)>>,
        <<>>)

\* func Ping(ctx) error
FnPing ==
    FuncDecl(<<>>, <<>>,
        <<ReturnStmt(<<HttpCall(<<"Response">>,
                                <<Ident(<<"ctx">>), BasicLit("INT", <<"2", "0", "0">>)>>)>>)>>)

\* func Echo(ctx, payload) error
FnEcho ==
    FuncDecl(<<>>, <<>>,
        <<ReturnStmt(<<HttpCall(<<"Response">>,
                                <<Ident(<<"ctx">>), BasicLit("INT", <<"5", "0", "0">>),
                                  Ident(<<"payload">>)>>)>>)>>)

\* func Health(ctx) error, which answers without the http helpers
FnHealth == FuncDecl(<<>>, <<>>, <<>>)

\* ac.functions after parseDirectoryFiles.
ControllerFunctions ==
    (<<"Get", "Feed">> :> FnGetFeed) @@ (<<"List", "Feeds">> :> FnListFeeds)
    @@ (<<"Create", "Feed">> :> FnCreateFeed) @@ (<<"Delete", "Feed">> :> FnDeleteFeed)
    @@ (<<"Ping">> :> FnPing) @@ (<<"Echo">> :> FnEcho) @@ (<<"Health">> :> FnHealth)

\* ac.controllerFields after parseDirectoryFiles.
ControllerFields ==
    (<<"feedController", ".", "bl">>
        :> <<"*", "feeds", "_", "business", "_", "layer", ".", "FeedBusinessLayer">>)

\* The layers of the registry after a scan that found the business layer.
ScannedLayers ==
    (<<"feeds", "_", "business", "_", "layer", ".", "FeedBusinessLayer">> :>
        [TypeName |-> <<"FeedBusinessLayer">>,
         Methods |-> (<<"Get", "Feed">> :> <<TAFeed, <<"error">>>>)
                     @@ (<<"List", "Feeds">> :> <<<<"[", "]">> \o TAFeed, <<"error">>>>)
                     @@ (<<"Delete", "Feed">> :> <<<<"error">>>>)])

\* The analyzer context of the directory; the registry is empty when the
\* scan of the business layers failed or found none.
AnalyzerContexts ==
    {[functions |-> ControllerFunctions, controllerFields |-> ControllerFields,
      layers |-> layers, msName |-> <<"ms", "_", "feeds">>] : layers \in {ScannedLayers, <<>>}}

\* The context with the registry as NewBusinessLayerRegistry leaves it.
UnscannedContext ==
    [functions |-> ControllerFunctions, controllerFields |-> ControllerFields,
     layers |-> <<>>, msName |-> <<"ms", "_", "feeds">>]

\* The routes of the controller files, as the route extractor returns them:
\* handlers of the directory, a function literal, a handler declared elsewhere.
Routes ==
    {[path |-> <<"/", "feeds", "/", ":", "id">>, method |-> <<"Get">>, handler |-> <<"Get", "Feed">>],
     [path |-> <<"/", "feeds">>, method |-> <<"Get">>, handler |-> <<"List", "Feeds">>],
     [path |-> <<"/", "feeds">>, method |-> <<"Post">>, handler |-> <<"Create", "Feed">>],
     [path |-> <<"/", "feeds", "/", ":", "id">>, method |-> <<"Delete">>,
      handler |-> <<"Delete", "Feed">>],
     [path |-> <<"/", "feeds", "/", "by", "/", ":", "query">>, method |-> <<"Get">>,
      handler |-> <<"List", "Feeds">>],
     [path |-> <<"/", "ping">>, method |-> <<"Get">>, handler |-> <<"Ping">>],
     [path |-> <<"/", ":", "id">>, method |-> <<"Post">>, handler |-> <<"Echo">>],
     [path |-> <<"/">>, method |-> <<"Get">>, handler |-> <<"Health">>],
     [path |-> <<"/", "feeds">>, method |-> <<"Get">>, handler |-> <<"<inline>">>],
     [path |-> <<"/", "user", "-", "profiles", "/", ":", "id">>, method |-> <<"Put">>,
      handler |-> <<"Gone">>]}

RawEndpoints ==
    {EndpointInfo(r.path, r.method, r.handler, MiddlewareOf(mws)) :
        r \in Routes,
        mws \in {<<>>, <<MwAuthenticated, MwHasPermission>>, <<MwHasPermission, MwAnyFeatures>>}}

\* The model trees the schemas are resolved in.
AssembleTrees ==
    {<<FileA(t1, <<>>), FileB(Ident(<<"string">>), <<>>)>> :
        t1 \in {Ident(<<"string">>), Ident(TItem), Ident(TMissing)}}

IdleAssemble ==
    /\ analyzerCtx = <<>>
    /\ basicEndpoints = <<>>
    /\ enhancedEndpoints = <<>>
    /\ added = <<>>
    /\ openapi = <<>>
    /\ phase = "idle"

\* generateOpenAPISpec before the first controller file.
InitAssemble ==
    /\ models \in AssembleTrees
    /\ analyzerCtx = UnscannedContext
    /\ basicEndpoints = <<>>
    /\ enhancedEndpoints = <<>>
    /\ added = <<>>
    /\ openapi = NewOpenAPISpec
    /\ phase = "scan"

\* blRegistry.ScanBusinessLayers(domainDir, suffix): the registry is filled,
\* or stays empty when the walk fails or finds no business layer.
ScanBusinessLayers ==
    /\ phase = "scan"
    /\ analyzerCtx' \in AnalyzerContexts
    /\ phase' = "endpoints"
    /\ UNCHANGED <<basicEndpoints, enhancedEndpoints, added, openapi>>
    /\ UNCHANGED <<resolverVars, securityVars, routeVars, registryVars, sharedVars, helperVars>>

\* The file loop without waiting for the scan.
inAnyPhase(ph) == ph \in {"scan", "endpoints"}

\* The loop over the controller files stands after the scan and before
\* resolveAllSchemas.
inFileLoop(ph) == ph = "endpoints"

\* part_004:92-100  the enhancement loop of analyzeControllerFile: the specs
\* enhanceEndpoint returns for the raw endpoints, in their order (it never
\* returns nil).
enhanceLocated(ac, raw) ==
    [i \in 1..Len(SelectSeq(raw, LAMBDA b : b.Handler \in DOMAIN ac.functions)) |->
        enhanceEndpoint(ac, SelectSeq(raw, LAMBDA b : b.Handler \in DOMAIN ac.functions)[i])]
enhanceEach(ac, raw) == [i \in 1..Len(raw) |-> enhanceEndpoint(ac, raw[i])]

\* The raw endpoints of one controller file: one route, or two routes written
\* without middleware.
ControllerFiles ==
    {<<basic>> : basic \in RawEndpoints}
    \cup {<<b1, b2>> : b1, b2 \in {b \in RawEndpoints : b.Middleware = <<>>}}

\* analyzeControllerFile: every raw endpoint of the file is enhanced.
AnalyzeControllerFile(raw) ==
    /\ inFileLoop(phase)
    /\ enhancedEndpoints = <<>>
    /\ Len(added) + Len(raw) <= MaxEndpoints
    /\ basicEndpoints' = raw
    /\ enhancedEndpoints' = enhanceEach(analyzerCtx, raw)
    /\ UNCHANGED <<analyzerCtx, added, openapi, phase>>
    /\ UNCHANGED <<resolverVars, securityVars, routeVars, registryVars, sharedVars, helperVars>>

\* spec.AddEndpoint(endpoint) on the next endpoint of the file.
AddEndpoint ==
    /\ phase = "endpoints"
    /\ enhancedEndpoints # <<>>
    /\ openapi' = OpenAPISpec_AddEndpoint(openapi, Head(enhancedEndpoints))
    /\ added' = Append(added, Head(enhancedEndpoints))
    /\ enhancedEndpoints' = Tail(enhancedEndpoints)
    /\ UNCHANGED <<analyzerCtx, basicEndpoints, phase>>
    /\ UNCHANGED <<resolverVars, securityVars, routeVars, registryVars, sharedVars, helperVars>>

\* spec.resolveAllSchemas(typeResolver) after the last file; a stack overflow
\* in the resolver ends the run.
ResolveAllSchemas ==
    /\ phase = "endpoints"
    /\ enhancedEndpoints = <<>>
    /\ \E typeRefs \in RangeOrders(collectTypeReferences(openapi)) :
         LET st == resolveEach(models, ResolverState(processed, schemas, overflow), typeRefs)
         IN  /\ processed' = st.processed
             /\ schemas' = st.schemas
             /\ overflow' = st.overflow
             /\ openapi' = withSchemas(openapi, st.schemas)
             /\ phase' = IF st.overflow THEN "crashed" ELSE "schemas"
    /\ UNCHANGED <<models, lastCall, prevCall, nCalls>>
    /\ UNCHANGED <<analyzerCtx, basicEndpoints, enhancedEndpoints, added>>
    /\ UNCHANGED <<securityVars, routeVars, registryVars, sharedVars, helperVars>>

\* spec.FinalizeSecuritySchemes(cfg.OAuthAuthorize, cfg.OAuthToken), with the
\* URLs left empty in the configuration.
FinalizeSchemes ==
    /\ phase = "schemas"
    /\ openapi' = FinalizeSecuritySchemes(openapi, <<>>, <<>>)
    /\ phase' = "done"
    /\ UNCHANGED <<analyzerCtx, basicEndpoints, enhancedEndpoints, added>>
    /\ UNCHANGED <<resolverVars, securityVars, routeVars, registryVars, sharedVars, helperVars>>

NextAssemble ==
    \/ ScanBusinessLayers
    \/ \E raw \in ControllerFiles : AnalyzeControllerFile(raw)
    \/ AddEndpoint
    \/ ResolveAllSchemas
    \/ FinalizeSchemes

----------------------------------------------------------------------------
(* Properties of the enhancer and the assembler.                           *)

\* The raw endpoint's handler has no declaration in the symbol table.
HandlerAbsent(basic) == basic.Handler \notin DOMAIN analyzerCtx.functions

\* analyzeControllerFile has just returned: nothing of the file is added yet.
JustAnalysed == enhancedEndpoints # <<>> /\ Len(enhancedEndpoints) = Len(basicEndpoints)

\* C10: when the handler named by a raw endpoint is absent from the symbol
\* table (the sentinel of an inline handler included), the spec enhanceEndpoint
\* returns carries the endpoint's path, method, tags and security, and its
\* responses contain a default 200 entry with a generic object schema.
C10_AbsentHandlerDefault200 ==
    JustAnalysed =>
        \A i \in 1..Len(basicEndpoints) :
            HandlerAbsent(basicEndpoints[i]) =>
                /\ enhancedEndpoints[i].Path = basicEndpoints[i].Path
                /\ enhancedEndpoints[i].Method = ToUpper(basicEndpoints[i].Method)
                /\ enhancedEndpoints[i].Tags = assignTags(analyzerCtx, basicEndpoints[i].Path)
                /\ enhancedEndpoints[i].Security = extractSecurity(basicEndpoints[i].Middleware)
                /\ <<"2", "0", "0">> \in DOMAIN enhancedEndpoints[i].Responses
                /\ enhancedEndpoints[i].Responses[<<"2", "0", "0">>].Schema = TypeSchema("object")

\* The operation the document holds for the endpoint added last.
LastOperation ==
    openapi.Paths[OpenAPISpec_normalizePath(Last(added).Path)][ToLower(Last(added).Method)]

IsSuccessCode(code) == Len(code) = 3 /\ code[1] = "2"
IsErrorCode(code) == Len(code) = 3 /\ code[1] \in {"4", "5"}
\* The response of the endpoint has a schema (a 204 "No content" has none).
HasSchema(response) == response.Schema # SchemaSpec0

\* The content of the operation's response is exactly this schema.
ContentIs(responseRef_, schema) ==
    /\ DOMAIN responseRef_.Content = {"application/json"}
    /\ responseRef_.Content["application/json"].Schema = schema

RECURSIVE RefsOfSchema(_)
\* Every $ref in a schema, at any depth.
RefsOfSchema(schema) ==
    (IF schema.Ref # <<>> THEN {schema.Ref} ELSE {})
    \cup UNION {RefsOfSchema(schema.Properties[name]) : name \in DOMAIN schema.Properties}
    \cup UNION {RefsOfSchema(schema.Items[i]) : i \in 1..Len(schema.Items)}
    \cup UNION {RefsOfSchema(schema.AdditionalProperties[i]) :
                    i \in 1..Len(schema.AdditionalProperties)}

\* Every $ref of an operation: request body, responses, parameter schemas.
RefsOfOperation(op) ==
    UNION {UNION {RefsOfSchema(op.RequestBody[i].Content[ct].Schema) :
                    ct \in DOMAIN op.RequestBody[i].Content} : i \in 1..Len(op.RequestBody)}
    \cup UNION {UNION {RefsOfSchema(op.Responses[code].Content[ct].Schema) :
                    ct \in DOMAIN op.Responses[code].Content} : code \in DOMAIN op.Responses}
    \cup UNION {RefsOfSchema(op.Parameters[i].Schema) : i \in 1..Len(op.Parameters)}

\* Every $ref under `paths` of the document.
RefsUnderPaths ==
    UNION {UNION {RefsOfOperation(openapi.Paths[path][method]) :
                    method \in DOMAIN openapi.Paths[path]} : path \in DOMAIN openapi.Paths}

\* C1: once every endpoint is added, the schemas are resolved and the
\* security schemes finalized, every $ref in an operation under `paths` names
\* a key of components.schemas.
C1_NoDanglingRef ==
    phase = "done" =>
        \A ref \in RefsUnderPaths :
            /\ HasPrefix(ref, RefPrefix)
            /\ TrimPrefix(ref, RefPrefix) \in DOMAIN openapi.Schemas

\* The raw endpoints of the file last analysed whose specs are added already.
AddedOfFile == Len(basicEndpoints) - Len(enhancedEndpoints)

\* The spec is the enhancement of this raw endpoint.
EnhancementOf(endpoint, basic) ==
    /\ endpoint.Path = basic.Path
    /\ endpoint.Method = ToUpper(basic.Method)
    /\ endpoint.Handler = basic.Handler
    /\ endpoint.Middleware = basic.Middleware

SlotOf(s, path, verb) ==
    IF path \in DOMAIN s.Paths /\ verb \in DOMAIN s.Paths[path]
    THEN <<s.Paths[path][verb]>>
    ELSE <<>>

\* The slot an endpoint is written to.
SlotKey(endpoint) == <<OpenAPISpec_normalizePath(endpoint.Path), ToLower(endpoint.Method)>>

\* An AddEndpoint call writes the slot of its endpoint and no other slot.
WritesOwnSlotOnly ==
    added' # added =>
        LET endpoint == added'[Len(added')]
        IN  /\ SlotOf(openapi', SlotKey(endpoint)[1], SlotKey(endpoint)[2])
                = <<createOperation(endpoint)>>
            /\ \A path \in DOMAIN openapi.Paths \cup DOMAIN openapi'.Paths :
                \A verb \in ItemMethods :
                    <<path, verb>> # SlotKey(endpoint)
                        => SlotOf(openapi', path, verb) = SlotOf(openapi, path, verb)

\* After calls with pairwise distinct slots every added endpoint has its own
\* operation in its slot.
DistinctSlotsKept ==
    (\A i, j \in 1..Len(added) : i # j => SlotKey(added[i]) # SlotKey(added[j]))
        => \A i \in 1..Len(added) :
            SlotOf(openapi, SlotKey(added[i])[1], SlotKey(added[i])[2])
                = <<createOperation(added[i])>>

\* C12: AddEndpoint for verb V on normalized path P writes only the slot
\* (P, V), leaving the other verbs of P and all other paths as they were, so
\* that after AddEndpoint calls with pairwise distinct (normalized path, verb)
\* pairs each added endpoint still has its own operation.
C12_VerbSlotsIndependent == [][WritesOwnSlotOnly]_vars /\ []DistinctSlotsKept

\* Two endpoints of the same normalized path were added under different verbs.
C12_Witness ==
    /\ Len(added) = 2
    /\ SlotKey(added[1])[1] = SlotKey(added[2])[1]
    /\ SlotKey(added[1])[2] # SlotKey(added[2])[2]
    /\ SlotOf(openapi, SlotKey(added[1])[1], SlotKey(added[1])[2]) # <<>>

\* The added endpoint that wrote the slot last.
LastWriter(i) == \A j \in (i + 1)..Len(added) : SlotKey(added[j]) # SlotKey(added[i])

\* The operation in the slot of the added endpoint.
OperationOf(endpoint) == openapi.Paths[SlotKey(endpoint)[1]][SlotKey(endpoint)[2]]

\* The response is the endpoint's own response: its description, and its
\* schema, not wrapped, under its content type.
OwnResponse(ref, response) ==
    /\ ref.Description = response.Description
    /\ IF response.ContentType = "" THEN DOMAIN ref.Content = {}
       ELSE /\ DOMAIN ref.Content = {response.ContentType}
            /\ ref.Content[response.ContentType].Schema = response.Schema

\* The response is `Bad Request` with an object of the one string property
\* `error`.
InjectedBadRequest(ref) ==
    /\ ref.Description = "Bad Request"
    /\ DOMAIN ref.Content = {"application/json"}
    /\ ref.Content["application/json"].Schema.Type = "object"
    /\ DOMAIN ref.Content["application/json"].Schema.Properties = {<<"error">>}
    /\ ref.Content["application/json"].Schema.Properties[<<"error">>] = TypeSchema("string")

\* C13: after any sequence of AddEndpoint calls every operation of the
\* document has a `400` response: the endpoint's own when the endpoint defines
\* one, otherwise the injected `Bad Request` whose schema is an object with the
\* single string property `error`.
C13_Every400 ==
    /\ \A path \in DOMAIN openapi.Paths : \A verb \in DOMAIN openapi.Paths[path] :
        <<"4", "0", "0">> \in DOMAIN openapi.Paths[path][verb].Responses
    /\ \A i \in 1..Len(added) :
        LastWriter(i) =>
            IF <<"4", "0", "0">> \in DOMAIN added[i].Responses
            THEN OwnResponse(OperationOf(added[i]).Responses[<<"4", "0", "0">>],
                             added[i].Responses[<<"4", "0", "0">>])
            ELSE InjectedBadRequest(OperationOf(added[i]).Responses[<<"4", "0", "0">>])

\* The document holds an operation of an endpoint that defines a `400` and an
\* operation of an endpoint that defines none.
C13_Witness ==
    /\ Len(added) = 2
    /\ LastWriter(1)
    /\ <<"4", "0", "0">> \in DOMAIN added[1].Responses
    /\ <<"4", "0", "0">> \notin DOMAIN added[2].Responses
    /\ DOMAIN OperationOf(added[2]).Responses # {<<"4", "0", "0">>}

\* The scopes that occur in the security of the added endpoints.
ScopesOfAdded ==
    UNION {UNION {{added[i].Security[j].Scopes[k] : k \in 1..Len(added[i].Security[j].Scopes)} :
                    j \in 1..Len(added[i].Security)} :
            i \in 1..Len(added)}

\* C14: after FinalizeSecuritySchemes the scheme `permissions` exists exactly
\* when a scope occurred in the security of some added endpoint, its scope set
\* is then the set of all scopes of all added endpoints, and when no scope was
\* collected the only scheme is `bearerAuth`.
C14_PermissionsSchemeIffScopes ==
    phase = "done" =>
        /\ "permissions" \in DOMAIN openapi.SecuritySchemes <=> ScopesOfAdded # {}
        /\ "permissions" \in DOMAIN openapi.SecuritySchemes
            => DOMAIN openapi.SecuritySchemes["permissions"].Scopes = ScopesOfAdded
        /\ ScopesOfAdded = {} => DOMAIN openapi.SecuritySchemes = {"bearerAuth"}

\* Finalized after an endpoint with a scope and an endpoint without were added.
C14_Witness ==
    /\ phase = "done"
    /\ Len(added) = 2
    /\ added[1].Security = <<>>
    /\ ScopesOfAdded # {}
    /\ DOMAIN openapi.SecuritySchemes = {"bearerAuth", "permissions"}


----------------------------------------------------------------------------
(* The business-layer registry.  A method declaration of a scanned file is *)
(* [package, receiver, name, returnTypes]; the registry maps the key       *)
(* package.Type to [PackagePath, TypeName, Methods].                       *)

\* business_layer.go:131-157  one method declaration of parseBusinessLayerFile
parseMethod(registry, decl) ==
    LET key == decl.package \o <<".">> \o decl.receiver
        info == IF key \in DOMAIN registry THEN registry[key]
                ELSE [PackagePath |-> decl.package, TypeName |-> decl.receiver,
                      Methods |-> <<>>]
    IN  IF ~HasSuffix(decl.receiver, <<"BusinessLayer">>) THEN registry
        ELSE (key :> [info EXCEPT !.Methods = (decl.name :> decl.returnTypes) @@ @])
             @@ registry

\* business_layer.go:275-287  the method's first return type that is no error
methodReturnType(info, methodName) ==
    IF methodName \notin DOMAIN info.Methods THEN <<>>
    ELSE firstNonError(info.Methods[methodName])

\* BusinessLayerRegistry.LookupMethodByFieldType: what the call can return.
\* Without a layer under package.Type the loop over the map r.layers stops at
\* a layer of that type name; Go leaves the order of the loop open.
LookupResults(registry, fieldType, methodName) ==
    LET parts == Split(TrimPrefix(fieldType, <<"*">>), ".")
    IN  IF Len(parts) # 2 THEN {<<>>}
        ELSE IF parts[1] \o <<".">> \o parts[2] \in DOMAIN registry
        THEN {methodReturnType(registry[parts[1] \o <<".">> \o parts[2]], methodName)}
        ELSE IF layersNamed(registry, parts[2]) = {} THEN {<<>>}
        ELSE {methodReturnType(info, methodName) : info \in layersNamed(registry, parts[2])}

FeedsLayer == <<"feeds", "_", "business", "_", "layer">>
OrdersLayer == <<"orders", "_", "business", "_", "layer">>

\* The method declarations of the scanned business-layer files.
BusinessLayerDecls ==
    {[package |-> FeedsLayer, receiver |-> <<"Feed", "BusinessLayer">>,
      name |-> <<"Get", "Feed">>,
      returnTypes |-> <<<<"feeds", "_", "models", ".", "Feed">>, <<"error">>>>],
     [package |-> FeedsLayer, receiver |-> <<"Feed", "BusinessLayer">>,
      name |-> <<"Delete", "Feed">>, returnTypes |-> <<<<"error">>>>],
     [package |-> <<"legacy">>, receiver |-> <<"Feed", "BusinessLayer">>,
      name |-> <<"Get", "Feed">>,
      returnTypes |-> <<<<"errs", ".", "error">>, <<"legacy", ".", "Feed">>>>],
     [package |-> OrdersLayer, receiver |-> <<"Order", "BusinessLayer">>,
      name |-> <<"Get", "Feed">>,
      returnTypes |-> <<<<"[", "]">> \o <<"orders", "_", "models", ".", "Feed">>, <<"error">>>>],
     [package |-> FeedsLayer, receiver |-> <<"Feed", "Store">>,
      name |-> <<"Get", "Feed">>, returnTypes |-> <<<<"error">>>>]}

\* The declared types of the controller fields the lookups are made with.
FieldTypes ==
    {<<"*">> \o FeedsLayer \o <<".", "Feed", "BusinessLayer">>,
     FeedsLayer \o <<".", "Feed", "BusinessLayer">>,
     <<"*", "feeds", ".", "Feed", "BusinessLayer">>,
     <<"*", "legacy", ".", "Feed", "BusinessLayer">>,
     <<"*">> \o FeedsLayer \o <<".", "Feed", "Store">>,
     <<"*", "Feed", "BusinessLayer">>,
     <<"*", "domain", ".">> \o FeedsLayer \o <<".", "Feed", "BusinessLayer">>}

MethodNames == {<<"Get", "Feed">>, <<"Delete", "Feed">>, <<"Purge">>}

IdleRegistry ==
    /\ registryLayers = <<>>
    /\ lookup = <<>>

\* NewBusinessLayerRegistry
NewBusinessLayerRegistry == IdleRegistry

\* parseBusinessLayerFile reaches a method declaration; the scan is over
\* before the first lookup.
ParseMethod(decl) ==
    /\ lookup = <<>>
    /\ registryLayers' = parseMethod(registryLayers, decl)
    /\ UNCHANGED lookup
    /\ UNCHANGED <<resolverVars, securityVars, routeVars, assembleVars, sharedVars, helperVars>>

\* LookupMethodByFieldType(fieldType, methodName) returns.
LookupMethod(fieldType, methodName) ==
    /\ \E returned \in LookupResults(registryLayers, fieldType, methodName) :
        lookup' = <<[fieldType |-> fieldType, methodName |-> methodName,
                     returned |-> returned]>>
    /\ UNCHANGED registryLayers
    /\ UNCHANGED <<resolverVars, securityVars, routeVars, assembleVars, sharedVars, helperVars>>

NextRegistry ==
    \/ \E decl \in BusinessLayerDecls : ParseMethod(decl)
    \/ \E fieldType \in FieldTypes, methodName \in MethodNames :
        LookupMethod(fieldType, methodName)

\* The key package.Type of the field type of the latest lookup, if the field
\* type has that form.
LookupKey ==
    LET parts == Split(TrimPrefix(lookup[1].fieldType, <<"*">>), ".")
    IN  IF Len(parts) = 2 THEN <<parts[1] \o <<".">> \o parts[2]>> ELSE <<>>

\* C15: LookupMethodByFieldType returns the first non-error return type of the
\* method registered under exactly the key (package, type) of the field type,
\* and the empty string when nothing is registered under that key, when the
\* method is unknown or when the field type is not of the form package.Type.
C15_LookupByExactKey ==
    lookup # <<>> =>
        lookup[1].returned =
            IF LookupKey = <<>> THEN <<>>
            ELSE IF LookupKey[1] \notin DOMAIN registryLayers THEN <<>>
            ELSE IF lookup[1].methodName \notin DOMAIN registryLayers[LookupKey[1]].Methods
            THEN <<>>
            ELSE firstNonError(registryLayers[LookupKey[1]].Methods[lookup[1].methodName])

\* With a layer registered under the key of the field type the lookup returns
\* the first non-error return type of that layer's method.
RegisteredKeyLookup ==
    (lookup # <<>> /\ LookupKey # <<>> /\ LookupKey[1] \in DOMAIN registryLayers)
        => lookup[1].returned =
            IF lookup[1].methodName \notin DOMAIN registryLayers[LookupKey[1]].Methods
            THEN <<>>
            ELSE firstNonError(registryLayers[LookupKey[1]].Methods[lookup[1].methodName])

----------------------------------------------------------------------------
(* The generator configuration (package shared).  A config file is         *)
(* [valid, generate]: whether it is YAML that unmarshals into the wrapper, *)
(* and the keys its `generate` section sets with their values.             *)

\* The yaml tags of GeneratorConfig: the key of each field.
yamlTags ==
    [microservice_dir |-> "MicroserviceDir", domain_dir |-> "DomainDir",
     models_dir |-> "ModelsDir", configs_dir |-> "ConfigsDir", cmd_dir |-> "CmdDir",
     microservice_prefix |-> "MicroservicePrefix",
     business_layer_suffix |-> "BusinessLayerSuffix",
     openapi_title |-> "OpenAPITitle", openapi_servers |-> "OpenAPIServers",
     oauth_authorize |-> "OAuthAuthorize", oauth_token |-> "OAuthToken",
     module_name |-> "ModuleName"]

\* DefaultConfig
DefaultConfig ==
    [MicroserviceDir |-> "internal/ms", DomainDir |-> "internal/domain",
     ModelsDir |-> "pkg/models", ConfigsDir |-> "misc/configs", CmdDir |-> "cmd/ms",
     MicroservicePrefix |-> "ms_", BusinessLayerSuffix |-> "_business_layer",
     OpenAPITitle |-> "API", OpenAPIServers |-> <<>>,
     OAuthAuthorize |-> "", OAuthToken |-> "", ModuleName |-> ""]

\* yaml.Unmarshal(data, &wrapper) with wrapper.Generate preset: the fields
\* whose key the generate section sets take its value, the others keep theirs;
\* keys that are no tag of the struct are skipped.
yamlUnmarshal(data, generate) ==
    IF ~data.valid THEN [err |-> TRUE, Generate |-> generate]
    ELSE [err |-> FALSE,
          Generate |->
            [field \in DOMAIN generate |->
                IF \E key \in DOMAIN data.generate \cap DOMAIN yamlTags : yamlTags[key] = field
                THEN data.generate[CHOOSE key \in DOMAIN data.generate \cap DOMAIN yamlTags :
                                        yamlTags[key] = field]
                ELSE generate[field]]]

\* config.go:60  the paths LoadConfig tries, in order
pixieFirst == <<"pixie.yaml", ".pixie.yaml">>
configPaths == <<".pixie.yaml", "pixie.yaml">>

\* LoadConfig, on the files os.ReadFile can read
LoadConfig(files) ==
    LET found == SelectSeq(configPaths, LAMBDA path : path \in DOMAIN files)
    IN  IF found = <<>> THEN [cfg |-> DefaultConfig, err |-> "nil"]
        ELSE IF yamlUnmarshal(files[found[1]], DefaultConfig).err
        THEN [cfg |-> DefaultConfig, err |-> "failed to parse pixie config file"]
        ELSE [cfg |-> yamlUnmarshal(files[found[1]], DefaultConfig).Generate, err |-> "nil"]

\* The keys the config files of the runs set, one of them no key of the
\* configuration.
WrittenKeys == {"microservice_dir", "domain_dir", "openapi_servers", "openapi_version"}

\* The value a file sets a key to.
WrittenValue(path, key) ==
    IF key = "openapi_servers"
    THEN IF path = ".pixie.yaml" THEN <<"https://dot.example.com">>
         ELSE <<"https://api.example.com", "https://eu.example.com">>
    ELSE IF key = "domain_dir" THEN ""
    ELSE IF path = ".pixie.yaml" THEN "from-dot-pixie" ELSE "from-pixie"

\* The contents a config file is written with.
ConfigContents(path) ==
    {[valid |-> FALSE, generate |-> <<>>]}
    \cup {[valid |-> TRUE, generate |-> [key \in keys |-> WrittenValue(path, key)]] :
            keys \in SUBSET WrittenKeys}

IdleConfig ==
    /\ configFiles = <<>>
    /\ loaded = <<>>

\* os.WriteFile(path, content) in the directory, before the tool runs.
WriteFile(path, content) ==
    /\ loaded = <<>>
    /\ path \notin DOMAIN configFiles
    /\ configFiles' = (path :> content) @@ configFiles
    /\ UNCHANGED loaded
    /\ UNCHANGED <<resolverVars, securityVars, routeVars, assembleVars, registryVars, featureVars, helperVars>>

\* LoadConfig() returns.
LoadConfigCall ==
    /\ loaded = <<>>
    /\ loaded' = <<LoadConfig(configFiles)>>
    /\ UNCHANGED configFiles
    /\ UNCHANGED <<resolverVars, securityVars, routeVars, assembleVars, registryVars, featureVars, helperVars>>

NextConfig ==
    \/ \E path \in {".pixie.yaml", "pixie.yaml"} :
        \E content \in ConfigContents(path) : WriteFile(path, content)
    \/ LoadConfigCall

\* The file the configuration is to come from, as zero or one.
FirstConfigFile ==
    IF ".pixie.yaml" \in DOMAIN configFiles THEN <<configFiles[".pixie.yaml"]>>
    ELSE IF "pixie.yaml" \in DOMAIN configFiles THEN <<configFiles["pixie.yaml"]>>
    ELSE <<>>

\* C16: LoadConfig reads the first existing of `.pixie.yaml` and `pixie.yaml`
\* (`.pixie.yaml` wins) and returns, for every field, the value the file's
\* `generate` section sets and the DefaultConfig value for a field it does not
\* set; without a file it returns DefaultConfig and a nil error.
C16_FileOverDefaults ==
    loaded # <<>> =>
        IF FirstConfigFile = <<>>
        THEN loaded[1].cfg = DefaultConfig /\ loaded[1].err = "nil"
        ELSE FirstConfigFile[1].valid =>
                /\ loaded[1].err = "nil"
                /\ \A key \in DOMAIN yamlTags :
                    loaded[1].cfg[yamlTags[key]] =
                        IF key \in DOMAIN FirstConfigFile[1].generate
                        THEN FirstConfigFile[1].generate[key]
                        ELSE DefaultConfig[yamlTags[key]]

\* Both files were there, they set different keys, and the configuration was
\* loaded: one field from `.pixie.yaml`, the others as in DefaultConfig.
C16_Witness ==
    /\ loaded # <<>>
    /\ DOMAIN configFiles = {".pixie.yaml", "pixie.yaml"}
    /\ configFiles[".pixie.yaml"].valid
    /\ DOMAIN configFiles[".pixie.yaml"].generate = {"microservice_dir"}
    /\ configFiles["pixie.yaml"].valid
    /\ DOMAIN configFiles["pixie.yaml"].generate = {"microservice_dir", "domain_dir"}
    /\ loaded[1].cfg.MicroserviceDir = "from-dot-pixie"
    /\ loaded[1].cfg.DomainDir = "internal/domain"

IdleFeatures ==
    /\ features = <<>>
    /\ inputFeatures = <<>>
    /\ pending = {}
    /\ depAdded = FALSE
    /\ resolving = "idle"
    /\ again = FALSE

IdleShared == IdleConfig /\ IdleFeatures

----------------------------------------------------------------------------
(* Feature dependencies (package shared).  The features map is a function  *)
(* from the feature names to BOOLEAN: a key the Go map lacks reads false.  *)

\* part_002:476-481  the dependency table
dependencies ==
    ("auth" :> <<"tokens">>) @@ ("backoffice" :> <<"auth">>)
    @@ ("events" :> <<"cache">>) @@ ("notifications" :> <<"events">>)

\* The feature names of the runs: those of the table and one outside it.
FeatureNames ==
    {"auth", "tokens", "backoffice", "events", "cache", "notifications", "database"}

\* part_002:486-493  the body of the range loop for one key of the table
withDependencies(fs, feature) ==
    IF fs[feature]
    THEN [f \in DOMAIN fs |->
            fs[f] \/ \E i \in 1..Len(dependencies[feature]) : dependencies[feature][i] = f]
    ELSE fs

\* part_002:495-497  `if !added { break }`
singlePass(wasAdded) == FALSE
anotherPass(wasAdded) == wasAdded

\* ResolveFeatureDependencies(features) is called.
CallResolve(input) ==
    /\ resolving = "idle"
    /\ features' = input
    /\ inputFeatures' = input
    /\ pending' = DOMAIN dependencies
    /\ depAdded' = FALSE
    /\ resolving' = "loop"
    /\ UNCHANGED again
    /\ UNCHANGED <<resolverVars, securityVars, routeVars, assembleVars, registryVars, configVars, helperVars>>

\* The range loop comes to a key of the table; Go leaves the order open.
RangeStep(feature) ==
    /\ resolving = "loop"
    /\ feature \in pending
    /\ features' = withDependencies(features, feature)
    /\ depAdded' = (depAdded \/ withDependencies(features, feature) # features)
    /\ pending' = pending \ {feature}
    /\ UNCHANGED <<inputFeatures, resolving, again>>
    /\ UNCHANGED <<resolverVars, securityVars, routeVars, assembleVars, registryVars, configVars, helperVars>>

\* The range loop is over: another pass, or the return.
EndPass ==
    /\ resolving = "loop"
    /\ pending = {}
    /\ IF anotherPass(depAdded)
       THEN /\ pending' = DOMAIN dependencies
            /\ depAdded' = FALSE
            /\ UNCHANGED resolving
       ELSE /\ resolving' = "returned"
            /\ UNCHANGED <<pending, depAdded>>
    /\ UNCHANGED <<features, inputFeatures, again>>
    /\ UNCHANGED <<resolverVars, securityVars, routeVars, assembleVars, registryVars, configVars, helperVars>>

\* ResolveFeatureDependencies is called on the map it returned.
ResolveAgain ==
    /\ resolving = "returned"
    /\ ~again
    /\ inputFeatures' = features
    /\ pending' = DOMAIN dependencies
    /\ depAdded' = FALSE
    /\ resolving' = "loop"
    /\ again' = TRUE
    /\ UNCHANGED features
    /\ UNCHANGED <<resolverVars, securityVars, routeVars, assembleVars, registryVars, configVars, helperVars>>

NextFeatures ==
    \/ \E input \in [FeatureNames -> BOOLEAN] : CallResolve(input)
    \/ \E feature \in DOMAIN dependencies : RangeStep(feature)
    \/ EndPass
    \/ ResolveAgain

\* The enabled features of a map.
Enabled(fs) == {f \in DOMAIN fs : fs[f]}

\* auth requires tokens, backoffice requires auth, events requires cache,
\* notifications requires events.
Requires ==
    {<<"auth", "tokens">>, <<"backoffice", "auth">>, <<"events", "cache">>,
     <<"notifications", "events">>}

\* The set holds what its features require.
Closed(S) == \A r \in Requires : r[1] \in S => r[2] \in S

\* The returned map enables the least closed set holding the enabled input
\* features, and a call on a returned map returns that map.
LeastClosure ==
    resolving = "returned" =>
        /\ Enabled(inputFeatures) \subseteq Enabled(features)
        /\ Closed(Enabled(features))
        /\ \A D \in SUBSET FeatureNames :
            (Enabled(inputFeatures) \subseteq D /\ Closed(D)) => Enabled(features) \subseteq D
        /\ again => features = inputFeatures

\* C17: ResolveFeatureDependencies terminates and returns the least feature
\* set that contains every enabled input feature and is closed under the
\* dependency table: transitive dependencies are enabled, nothing outside the
\* closure is, and resolving a resolved set changes nothing.
C17_LeastClosedSet == []LeastClosure /\ ((resolving = "loop") ~> (resolving = "returned"))

\* A call with backoffice and notifications alone has returned all six
\* features of the table, and the call on that result has returned too.
C17_Witness ==
    /\ resolving = "returned"
    /\ again
    /\ Enabled(features) = FeatureNames \ {"database"}
    /\ Enabled(inputFeatures) = Enabled(features)

\* The parent path without its trailing slash, then the child path with a
\* leading slash.
JoinedPath(parent, child) ==
    TrimSuffix(parent, <<"/">>)
        \o (IF HasPrefix(child, <<"/">>) THEN child ELSE <<"/">> \o child)

\* The statement walked in this step registers an endpoint on a group: the
\* endpoint's path is the group's path joined with the path of the call.
EndpointJoin ==
    (/\ visited' # visited
     /\ Last(visited').k = "Expr"
     /\ endpoints' # endpoints
     /\ Last(visited').x.fun.x.k = "Ident"
     /\ Last(visited').x.fun.x.name \in DOMAIN groupPaths)
        => Last(endpoints').Path =
            JoinedPath(groupPaths[Last(visited').x.fun.x.name],
                       IF extractStringLiteral(Last(visited').x.args[1]) = <<>> THEN <<"/">>
                       ELSE extractStringLiteral(Last(visited').x.args[1]))

\* The statement walked in this step assigns a group nested in a group: the
\* path of the new group is the parent's path joined with the path of the call.
NestedGroupJoin ==
    \A name \in {<<"root">>, <<"a">>, <<"b">>, <<"v1">>} :
        (/\ visited' # visited
         /\ AssignsGroup(Last(visited'), name)
         /\ Last(visited').rhs[1].args # <<>>
         /\ extractStringLiteral(Last(visited').rhs[1].args[1]) # <<>>
         /\ Last(visited').rhs[1].fun.x.name \in DOMAIN groupPaths)
            => /\ name \in DOMAIN groupPaths'
               /\ groupPaths'[name] =
                    JoinedPath(groupPaths[Last(visited').rhs[1].fun.x.name],
                               extractStringLiteral(Last(visited').rhs[1].args[1]))

\* C18: whenever a child path is appended to a parent group path, for a group
\* nested in a group and for an endpoint on a group, the parent's trailing
\* slash is trimmed and the child is given a leading slash before the two are
\* concatenated, so the join has neither a doubled nor a missing `/`.
C18_JoinedPaths == [][NestedGroupJoin /\ EndpointJoin]_vars

\* The endpoints alone are joined that way.
EndpointJoinsOnly == [][EndpointJoin]_vars

\* The variables a controller file assigns its groups to.
GroupNames == {<<"root">>, <<"a">>, <<"b">>, <<"v1">>}

\* After the step the name is a group whose path ends with the path of the
\* call and whose middleware ends with the middleware of the call.
BoundToGroup(name, call) ==
    /\ name \in DOMAIN groupPaths'
    /\ HasSuffix(groupPaths'[name], extractStringLiteral(call.args[1]))
    /\ name \in DOMAIN groupMiddleware'
    /\ HasSuffix(groupMiddleware'[name], AppendMiddleware(variables, <<>>, Tail(call.args)))

\* The statement walked in this step is `name := <ident>.Group(path, mw...)`:
\* the name is bound to the group of that call.
RegistersGroup ==
    \A name \in GroupNames :
        (/\ visited' # visited
         /\ AssignsGroup(Last(visited'), name)
         /\ Last(visited').rhs[1].args # <<>>)
            => BoundToGroup(name, Last(visited').rhs[1])

\* The same for the calls whose path is a string literal that is not empty.
RegistersPathedGroup ==
    \A name \in GroupNames :
        (/\ visited' # visited
         /\ AssignsGroup(Last(visited'), name)
         /\ Last(visited').rhs[1].args # <<>>
         /\ extractStringLiteral(Last(visited').rhs[1].args[1]) # <<>>)
            => BoundToGroup(name, Last(visited').rhs[1])

\* C19: every assignment `X := <ident>.Group(path, mw...)` registers X as a
\* route group carrying that path and middleware, replacing any earlier
\* binding of X, so that the endpoints later registered on X inherit mw.
C19_GroupAssignmentRegisters == [][RegistersGroup]_vars

\* Group calls with a non-empty literal path do register.
PathedGroupsRegister == [][RegistersPathedGroup]_vars

\* The latest statement is an HTTP-verb call that gave an endpoint.
VerbCall ==
    /\ visited # <<>>
    /\ Last(visited).k = "Expr"
    /\ Last(visited).x.fun.k = "Selector"
    /\ isHTTPMethod(Last(visited).x.fun.sel)
    /\ Len(Last(visited).x.args) >= 2
    /\ \E i \in 2..Len(Last(visited).x.args) :
            extractHandlerName(Last(visited).x.args[i]) # <<>>
    /\ endpoints # <<>>

\* The position of the right-most argument of the call, after the path, that
\* looks like a handler.
RightMostHandler(args) ==
    CHOOSE i \in 2..Len(args) :
        /\ extractHandlerName(args[i]) # <<>>
        /\ \A j \in (i + 1)..Len(args) : extractHandlerName(args[j]) = <<>>

\* The middleware of the group the call is made on.
GroupMiddlewareOf(call) ==
    IF call.fun.x.k = "Ident" /\ call.fun.x.name \in DOMAIN groupMiddleware
    THEN groupMiddleware[call.fun.x.name]
    ELSE <<>>

\* The handler is the right-most argument that looks like one, and the
\* middleware is the group's followed by one entry for each argument between
\* path and handler, in the order of the call.
HandlerLastMiddlewareBetween(call) ==
    LET h == RightMostHandler(call.args)
        groupMW == GroupMiddlewareOf(call)
        middleware == Last(endpoints).Middleware
    IN  /\ Last(endpoints).Handler = extractHandlerName(call.args[h])
        /\ Len(middleware) = Len(groupMW) + (h - 2)
        /\ SubSeq(middleware, 1, Len(groupMW)) = groupMW
        /\ \A i \in 2..(h - 1) :
            extractEnhancedMiddlewareName(variables, call.args[i]) # <<>>
                => middleware[Len(groupMW) + i - 1]
                        = extractEnhancedMiddlewareName(variables, call.args[i])

\* C20: for an HTTP-verb call with the arguments (path, a1..an) the handler is
\* the right-most argument that looks like a handler, and every argument
\* strictly between the path and the handler appears, in call order, in the
\* endpoint's middleware after the inherited group middleware, none omitted.
C20_MiddlewareBetweenPathAndHandler ==
    VerbCall => HandlerLastMiddlewareBetween(Last(visited).x)

\* The same with the arguments that have no name as middleware left out.
NamedMiddlewareBetween ==
    VerbCall =>
        /\ Last(endpoints).Handler =
            extractHandlerName(Last(visited).x.args[RightMostHandler(Last(visited).x.args)])
        /\ Last(endpoints).Middleware =
            GroupMiddlewareOf(Last(visited).x)
                \o SelectSeq([i \in 1..(RightMostHandler(Last(visited).x.args) - 2) |->
                                extractEnhancedMiddlewareName(variables,
                                                              Last(visited).x.args[i + 1])],
                             LAMBDA mw : mw # <<>>)

----------------------------------------------------------------------------
(* cleanTypeName on decorated type names.  A call is recorded as           *)
(* [impl, base, form, typeName, returned]: which of the two functions, the *)
(* base name and the decoration the argument was written from, the         *)
(* argument and the result.                                                *)

\* The base names and the packages the type names are written from.
BaseNames == {<<"Feed">>, <<"Item">>, <<"FeedList">>, <<"User">>}
PackageNames == {<<"feeds", "_", "models">>, <<"common">>}

\* The decorations of a base name T of package p.
Forms ==
    {"T", "*T", "[]T", "p.T", "*p.T", "[]p.T", "Outer[p.T]", "Outer[[]p.T]",
     "q.Outer[[]p.T]", "Outer[T]"}

\* The type name of that form.
Decorated(form, p, T) ==
    CASE form = "T" -> T
      [] form = "*T" -> <<"*">> \o T
      [] form = "[]T" -> <<"[", "]">> \o T
      [] form = "p.T" -> p \o <<".">> \o T
      [] form = "*p.T" -> <<"*">> \o p \o <<".">> \o T
      [] form = "[]p.T" -> <<"[", "]">> \o p \o <<".">> \o T
      [] form = "Outer[p.T]" -> <<"PaginatedResult", "[">> \o p \o <<".">> \o T \o <<"]">>
      [] form = "Outer[[]p.T]" ->
            <<"PaginatedResult", "[", "[", "]">> \o p \o <<".">> \o T \o <<"]">>
      [] form = "q.Outer[[]p.T]" ->
            <<"operators", ".", "PaginatedResult", "[", "[", "]">> \o p \o <<".">> \o T
                \o <<"]">>
      [] OTHER -> <<"PaginatedResult", "[">> \o T \o <<"]">>

\* The result of the function of the resolver or of the analyzer.
cleanTypeNameOf(impl, typeName) ==
    IF impl = "TypeResolver" THEN cleanTypeName(typeName)
    ELSE analyzerContext_cleanTypeName(typeName)

NoCleanCall == cleaned = <<>>
IdleSymbols ==
    /\ dirFiles = <<>>
    /\ symbolTable = <<>>
    /\ parsedDir = FALSE
    /\ handlerSpecs = <<>>
IdleHelpers == NoCleanCall /\ IdleSymbols

\* cleanTypeName(typeName) returns.
CleanTypeNameCall(impl, form, p, T) ==
    /\ cleaned' = <<[impl |-> impl, base |-> T, form |-> form,
                     typeName |-> Decorated(form, p, T),
                     returned |-> cleanTypeNameOf(impl, Decorated(form, p, T))]>>
    /\ UNCHANGED <<resolverVars, securityVars, routeVars, assembleVars, registryVars, sharedVars>>
    /\ UNCHANGED symbolVars

\* cleanTypeName is called on the name the call before returned.
CleanAgain ==
    /\ cleaned # <<>>
    /\ cleaned[1].form # "cleaned"
    /\ cleaned' = <<[impl |-> cleaned[1].impl, base |-> cleaned[1].base, form |-> "cleaned",
                     typeName |-> cleaned[1].returned,
                     returned |-> cleanTypeNameOf(cleaned[1].impl, cleaned[1].returned)]>>
    /\ UNCHANGED <<resolverVars, securityVars, routeVars, assembleVars, registryVars, sharedVars>>
    /\ UNCHANGED symbolVars

NextClean ==
    \/ \E impl \in {"TypeResolver", "analyzerContext"}, form \in Forms,
          p \in PackageNames, T \in BaseNames : CleanTypeNameCall(impl, form, p, T)
    \/ CleanAgain

\* The forms the statement is about.
ClaimedForms ==
    {"T", "*T", "[]T", "p.T", "*p.T", "[]p.T", "Outer[p.T]", "Outer[[]p.T]"}

\* C21: cleanTypeName strips pointer, slice, package-qualifier and
\* single-generic-wrapper decoration down to the bare base name: `T`, `*T`,
\* `[]T`, `p.T`, `*p.T`, `[]p.T`, `Outer[p.T]` and `Outer[[]p.T]` all clean to
\* `T`, and cleaning an already clean name returns it unchanged.
C21_CleansToBaseName ==
    cleaned # <<>> =>
        /\ cleaned[1].form \in ClaimedForms => cleaned[1].returned = cleaned[1].base
        /\ (cleaned[1].form = "cleaned" /\ cleaned[1].typeName \in BaseNames)
                => cleaned[1].returned = cleaned[1].typeName

\* The forms that do clean to the base name.
CleanedForms == {"T", "p.T", "*p.T", "Outer[p.T]", "Outer[[]p.T]", "q.Outer[[]p.T]", "Outer[T]"}

\* Those forms clean to the base name, and a cleaned name cleans to itself.
CleansPackageAndWrapper ==
    cleaned # <<>> =>
        /\ cleaned[1].form \in CleanedForms => cleaned[1].returned = cleaned[1].base
        /\ cleaned[1].form = "cleaned" => cleaned[1].returned = cleaned[1].typeName
        /\ cleaned[1].form = "*T" => cleaned[1].returned = cleaned[1].typeName
        /\ cleaned[1].form \in {"[]T", "[]p.T"} => cleaned[1].returned = <<>>

\* The two latest calls named types that are not built in, and the table held
\* a schema under the cleaned name of the later one when it was made.
SecondOfCleanName ==
    /\ nCalls >= 2
    /\ resolveBuiltInType(prevCall.name).Type = ""
    /\ resolveBuiltInType(lastCall.name).Type = ""
    /\ cleanTypeName(prevCall.name) = cleanTypeName(lastCall.name)
    /\ cleanTypeName(lastCall.name) \in DOMAIN prevCall.table

\* The latest call returned the $ref at once: nothing was searched or parsed
\* and the table is as it was.
ReturnedRefAtOnce ==
    /\ ~lastCall.fresh
    /\ lastCall.schema = RefSchema(cleanTypeName(lastCall.name))
    /\ lastCall.table = prevCall.table

\* C22: the resolver memoizes by cleaned type name: for two type names that
\* are not built in and have the same cleaned name, once one of them is in the
\* schema table ResolveType on the other returns the `$ref` immediately,
\* without searching or parsing declaration files again and without rewriting
\* the entry of the table.
C22_MemoByCleanName == SecondOfCleanName => ReturnedRefAtOnce

\* A second call with the very same type name does return at once.
MemoBySameName ==
    (SecondOfCleanName /\ prevCall.name = lastCall.name) => ReturnedRefAtOnce

\* The names of the `:name` segments of a path.
SegmentNames(path) ==
    {TrimPrefix(Split(path, "/")[i], <<":">>) :
        i \in {j \in 1..Len(Split(path, "/")) : HasPrefix(Split(path, "/")[j], <<":">>)}}

\* The parameters of the spec with that name and the location `path`.
PathParametersNamed(spec, name) ==
    {i \in 1..Len(spec.Parameters) :
        spec.Parameters[i].Name = name /\ spec.Parameters[i].In = "path"}

\* The parameters the body of the handler gave the spec.
BodyParameters(basic) ==
    analyzeFunctionBody(analyzerCtx, analyzerCtx.functions[basic.Handler].body,
                        basicSpec(analyzerCtx, basic),
                        extractReceiverType(analyzerCtx.functions[basic.Handler])).Parameters

\* C23: for every endpoint whose handler is located, after enhanceEndpoint
\* each `:name` segment of the path has a parameter named `name` with location
\* `path` in the spec's parameter list, found by the analysis of the body or
\* supplemented by the scan of the path, and the scan adds no name the
\* analysis of the body has added.
C23_PathParametersComplete ==
    \A i \in 1..Len(enhancedEndpoints) :
        LET basic == basicEndpoints[AddedOfFile + i]
            spec == enhancedEndpoints[i]
        IN  ~HandlerAbsent(basic) =>
                /\ \A name \in SegmentNames(basic.Path) : PathParametersNamed(spec, name) # {}
                /\ \A k \in (Len(BodyParameters(basic)) + 1)..Len(spec.Parameters) :
                    \A j \in 1..Len(BodyParameters(basic)) :
                        BodyParameters(basic)[j].Name # spec.Parameters[k].Name

\* The same, for the segments whose name the body has not used for a parameter
\* of another location.
PathParametersUnlessNameTaken ==
    \A i \in 1..Len(enhancedEndpoints) :
        LET basic == basicEndpoints[AddedOfFile + i]
            spec == enhancedEndpoints[i]
        IN  ~HandlerAbsent(basic) =>
                /\ \A name \in SegmentNames(basic.Path) :
                    (\A j \in 1..Len(BodyParameters(basic)) :
                        BodyParameters(basic)[j].Name = name
                            => BodyParameters(basic)[j].In = "path")
                        => PathParametersNamed(spec, name) # {}
                /\ \A k \in (Len(BodyParameters(basic)) + 1)..Len(spec.Parameters) :
                    \A j \in 1..Len(BodyParameters(basic)) :
                        BodyParameters(basic)[j].Name # spec.Parameters[k].Name

\* The send-response calls in the body of the handler of a raw endpoint.
ResponseCalls(basic) ==
    SelectSeq(callsOfBody(analyzerCtx.functions[basic.Handler].body),
              LAMBDA call : call.fun.k = "Selector" /\ call.fun.sel = <<"Response">>)

\* The argument after the context is an integer literal.
StatusGiven(call) ==
    Len(call.args) >= 2 /\ call.args[2].k = "BasicLit" /\ call.args[2].kind = "INT"

\* The status code a send-response call is to be recorded under.
StatusOf(call) ==
    IF Len(call.args) < 2 THEN <<"2", "0", "4">>
    ELSE IF StatusGiven(call) THEN call.args[2].value
    ELSE <<"2", "0", "0">>

\* The payload argument of a send-response call, as zero or one.
PayloadOf(call) ==
    IF Len(call.args) >= 3 /\ StatusGiven(call) THEN <<call.args[3]>>
    ELSE IF Len(call.args) >= 2 /\ ~StatusGiven(call) THEN <<call.args[2]>>
    ELSE <<>>

\* The response is what the call is to record.
RecordedAs(response, call) ==
    /\ Len(call.args) < 2 => response.Description = "No content" /\ response.ContentType = ""
    /\ (PayloadOf(call) # <<>> /\ PayloadOf(call)[1] = Ident(<<"err">>)) =>
            /\ response.Description = "Error response"
            /\ response.Schema.Type = "object"
            /\ DOMAIN response.Schema.Properties = {<<"error">>}
            /\ response.Schema.Properties[<<"error">>].Type = "string"

\* C24: a send-response call in a handler body with only a context argument
\* records a `204` No Content response; with an integer literal argument the
\* response is recorded under that literal as status code, otherwise under
\* `200`; and when the payload argument is the identifier `err` the response
\* is an error response whose schema is an object with a string `error` field.
C24_SendResponseRecorded ==
    \A i \in 1..Len(enhancedEndpoints) :
        LET basic == basicEndpoints[AddedOfFile + i]
            spec == enhancedEndpoints[i]
        IN  ~HandlerAbsent(basic) =>
                LET calls == ResponseCalls(basic)
                    status == [k \in 1..Len(calls) |-> StatusOf(calls[k])]
                IN  \A k \in 1..Len(calls) :
                        /\ status[k] \in DOMAIN spec.Responses
                        /\ (\A j \in (k + 1)..Len(calls) : status[j] # status[k])
                            => RecordedAs(spec.Responses[status[k]], calls[k])

\* A handler with Response(ctx, 404, err) and Response(ctx) has been analysed,
\* and so has one with Response(ctx, 201, req).
C24_Witness ==
    /\ Len(enhancedEndpoints) = 2
    /\ enhancedEndpoints[1].Handler = <<"Delete", "Feed">>
    /\ DOMAIN enhancedEndpoints[1].Responses = {<<"4", "0", "4">>, <<"2", "0", "4">>}
    /\ enhancedEndpoints[1].Responses[<<"4", "0", "4">>].Description = "Error response"
    /\ enhancedEndpoints[2].Handler = <<"Create", "Feed">>
    /\ DOMAIN enhancedEndpoints[2].Responses = {<<"2", "0", "1">>}

\* The name before the first comma of the field's json tag.
JsonNameOf(field) == IF field.json = <<>> THEN <<>> ELSE Split(field.json, ",")[1]

\* The field's json tag has the option omitempty after its name.
HasOmitEmpty(field) ==
    /\ field.json # <<>>
    /\ \E i \in 2..Len(Split(field.json, ",")) : Split(field.json, ",")[i] = <<"omitempty">>

\* The field has a json tag name other than `-`.
Contributes(field) == JsonNameOf(field) # <<>> /\ JsonNameOf(field) # <<"-">>

\* The field is not both omitempty and without a required marker.
MustBeListed(field) == ~HasOmitEmpty(field) \/ Contains(field.validate, "required")

\* The json names of the listed fields, in the order of the fields.
RequiredNames(fields) ==
    LET listed == SelectSeq(fields, LAMBDA field : Contributes(field) /\ MustBeListed(field))
    IN  [i \in 1..Len(listed) |-> JsonNameOf(listed[i])]

ScanComesFirst ==
    phase = "scan" =>
        /\ basicEndpoints = <<>>
        /\ enhancedEndpoints = <<>>
        /\ added = <<>>
        /\ DOMAIN openapi.Paths = {}

\* Once the scan is over the registry stays as the scan left it.
RegistryKept == phase # "scan" => analyzerCtx'.layers = analyzerCtx.layers /\ phase' # "scan"

\* The security schemes change in the finalizing step only; that step is
\* taken when every endpoint of every file has been added, and no endpoint
\* is analysed or added after it or after resolveAllSchemas.
FinalizedLast ==
    /\ openapi'.SecuritySchemes # openapi.SecuritySchemes => phase = "schemas" /\ phase' = "done"
    /\ phase' = "done" => phase = "schemas" /\ enhancedEndpoints = <<>>
    /\ phase \in {"schemas", "done"} =>
            /\ added' = added
            /\ enhancedEndpoints' = enhancedEndpoints
            /\ openapi'.Paths = openapi.Paths
    /\ phase # "done"

Unmarked(basic) ==
    \A i \in 1..Len(basic.Middleware) : ~ContainsStr(basic.Middleware[i], Authenticated)

\* Some middleware entry of the raw endpoint is a call that names permissions.
PermissionBearing(basic) ==
    \E i \in 1..Len(basic.Middleware) :
        extractPermissionsFromMiddleware(basic.Middleware[i]) # <<>>

\* The raw endpoint of the spec that AddEndpoint takes next.
NextBasic == basicEndpoints[AddedOfFile + 1]

\* Adding the spec of a permission-bearing chain without marker collects no
\* scope and writes an operation without security requirement.
AddsNoScope ==
    (added' # added /\ Unmarked(NextBasic) /\ PermissionBearing(NextBasic)) =>
        /\ openapi'.collectedScopes = openapi.collectedScopes
        /\ openapi'.Paths[SlotKey(Head(enhancedEndpoints))[1]]
                         [SlotKey(Head(enhancedEndpoints))[2]].Security = <<>>

\* The spec of a permission-bearing chain without marker has no security.
NoSecurityUnmarked ==
    \A i \in 1..Len(enhancedEndpoints) :
        (Unmarked(basicEndpoints[AddedOfFile + i])
         /\ PermissionBearing(basicEndpoints[AddedOfFile + i]))
            => enhancedEndpoints[i].Security = <<>>

\* C27: for a middleware chain with permission-bearing calls and no entry
\* containing `Authenticated`, extractSecurity returns the empty list, the
\* endpoint has no security requirement, and the scopes of the chain are never
\* collected into the scopes of the `permissions` scheme.
C27_ScopesNeedAuthentication ==
    /\ []NoSecurityUnmarked
    /\ [][AddsNoScope]_vars
    /\ [](openapi.collectedScopes = ScopesOfAdded)

\* A run with the one endpoint of a chain hasPermission, AnyFeaturesOf has
\* ended without scope and without `permissions` scheme.
C27_Witness ==
    /\ phase = "done"
    /\ Len(added) = 1
    /\ Len(basicEndpoints) = 1
    /\ Unmarked(basicEndpoints[1])
    /\ Len(basicEndpoints[1].Middleware) = 2
    /\ \A i \in 1..2 : extractPermissionsFromMiddleware(basicEndpoints[1].Middleware[i]) # <<>>
    /\ added[1].Security = <<>>
    /\ openapi.collectedScopes = {}
    /\ "permissions" \notin DOMAIN openapi.SecuritySchemes

\* The security requirements of the operations of the document, each as
\* [name, scopes].
RequirementsUsed ==
    UNION {UNION {UNION {{[name |-> name, scopes |-> openapi.Paths[path][verb].Security[i][name]] :
                            name \in DOMAIN openapi.Paths[path][verb].Security[i]} :
                        i \in 1..Len(openapi.Paths[path][verb].Security)} :
                    verb \in DOMAIN openapi.Paths[path]} :
            path \in DOMAIN openapi.Paths}

\* C28: after FinalizeSecuritySchemes every security requirement name used by
\* an operation is a key of components.securitySchemes, and every scope listed
\* by a `permissions` requirement is a scope of the `permissions` scheme.
C28_RequirementsHaveSchemes ==
    phase = "done" =>
        \A requirement \in RequirementsUsed :
            /\ requirement.name \in {"bearerAuth", "permissions"}
            /\ requirement.name \in DOMAIN openapi.SecuritySchemes
            /\ requirement.name = "permissions" =>
                \A i \in 1..Len(requirement.scopes) :
                    requirement.scopes[i]
                        \in DOMAIN openapi.SecuritySchemes["permissions"].Scopes

\* Finalized with an operation that requires `permissions` with the scope
\* orders:write, which the scheme lists.
C28_Witness ==
    /\ phase = "done"
    /\ [name |-> "permissions", scopes |-> <<<<"orders:write">>>>] \in RequirementsUsed
    /\ "permissions" \in DOMAIN openapi.SecuritySchemes
    /\ <<"orders:write">> \in DOMAIN openapi.SecuritySchemes["permissions"].Scopes

\* The schema is the one of the declaration: of a struct its description, its
\* property names and its required names; of a named built-in type the schema
\* of that type.
SchemaIsOf(schema, decl) ==
    CASE decl.kind = "struct" ->
            /\ schema.Type = "object"
            /\ schema.Description = decl.doc
            /\ DOMAIN schema.Properties =
                    {JsonNameOf(decl.fields[i]) :
                        i \in {j \in 1..Len(decl.fields) : Contributes(decl.fields[j])}}
            /\ schema.Required = RequiredNames(decl.fields)
      [] decl.kind = "ident" -> schema = resolveBuiltInType(decl.underlying)
      [] OTHER -> FALSE

\* The two latest calls resolved the type Feed of two packages, one call each,
\* and both packages declare it.
BothFeedsResolved ==
    /\ {prevCall.name, lastCall.name} = {TAFeed, TBFeed}
    /\ prevCall.fresh /\ lastCall.fresh
    /\ DeclarationOf(models, TAFeed) # <<>>
    /\ DeclarationOf(models, TBFeed) # <<>>

\* C29: the schema table holds at most one schema per bare type name: its keys
\* are bare names, and when two model packages declare a type of the same
\* name, resolving both package-qualified names writes the same key, the entry
\* is the schema of the one resolved last, and both calls return the `$ref` of
\* that one entry.
C29_OneSchemaPerBareName ==
    /\ \A key \in DOMAIN schemas : ~Contains(key, ".") /\ cleanTypeName(key) = key
    /\ BothFeedsResolved =>
        /\ TFeed \in DOMAIN prevCall.table
        /\ SchemaIsOf(prevCall.table[TFeed], DeclarationOf(models, prevCall.name)[1])
        /\ SchemaIsOf(schemas[TFeed], DeclarationOf(models, lastCall.name)[1])
        /\ ~SchemaIsOf(schemas[TFeed], DeclarationOf(models, prevCall.name)[1])
        /\ \A key \in DOMAIN schemas : cleanTypeName(key) = TFeed => key = TFeed
        /\ prevCall.schema = RefSchema(TFeed)
        /\ lastCall.schema = RefSchema(TFeed)

\* a_models.Feed was resolved, then b_models.Feed, a struct as well: the table
\* holds the struct of package b under Feed.
C29_Witness ==
    /\ BothFeedsResolved
    /\ lastCall.name = TBFeed
    /\ DeclarationOf(models, TBFeed)[1].kind = "struct"
    /\ prevCall.table[TFeed].Description = <<"A feed">>
    /\ DOMAIN schemas[TFeed].Properties = {<<"title">>, <<"note">>, <<"hint">>}

----------------------------------------------------------------------------
(* The symbol table of a controller directory.  A file is the sequence of  *)
(* its function declarations, [name, decl], in source order; the directory *)
(* is the sequence of its files in the order os.ReadDir lists them.        *)

\* Raw endpoints enhanced with one symbol table.
MaxRoutes == 2

\* func (c *orderController) List(ctx) error, which calls c.bl.ListFeeds as
\* the List of feedController does; orderController has no field bl.
FnListOrders ==
    FuncDecl(<<StarOf(Ident(<<"orderController">>))>>, <<>>,
        <<ReturnStmt(<<HttpCall(<<"Response">>,
                                <<Ident(<<"ctx">>), LayerCall(<<"List", "Feeds">>)>>)>>)>>)

DeclaredFunctions ==
    {[name |-> <<"List">>, decl |-> FnListFeeds],
     [name |-> <<"List">>, decl |-> FnListOrders],
     [name |-> <<"Ping">>, decl |-> FnPing],
     [name |-> <<"Health">>, decl |-> FnHealth]}

\* The files of the directory: two files of up to two declarations each.
SourceFiles == SeqsUpTo(DeclaredFunctions, 2)
Directories == [1..2 -> SourceFiles]

\* The raw endpoints of the controller file.
SymbolRoutes ==
    {EndpointInfo(<<"/", "feeds">>, <<"Get">>, <<"List">>, <<>>),
     EndpointInfo(<<"/", "ping">>, <<"Get">>, <<"Ping">>, <<>>),
     EndpointInfo(<<"/">>, <<"Get">>, <<"Gone">>, <<>>)}

\* A symbol table that keeps the first declaration of a name.
collectedFirst(fns, d) == fns @@ (d.name :> d.decl)

\* part_004:150-155  ac.functions[x.Name.Name] = x
collected(fns, d) == (d.name :> d.decl) @@ fns

RECURSIVE collectFile(_, _)
\* part_004:148-180  ast.Inspect over one file
collectFile(fns, file) ==
    IF file = <<>> THEN fns
    ELSE collectFile(collected(fns, Head(file)), Tail(file))

RECURSIVE parseDirectoryFiles(_, _)
\* analyzerContext.parseDirectoryFiles: ac.functions after the entries
parseDirectoryFiles(fns, entries) ==
    IF entries = <<>> THEN fns
    ELSE parseDirectoryFiles(collectFile(fns, Head(entries)), Tail(entries))

\* The analyzer context analyzeControllerFile creates, with its symbol table.
SymbolContext ==
    [functions |-> symbolTable, controllerFields |-> ControllerFields,
     layers |-> ScannedLayers, msName |-> <<"ms", "_", "feeds">>]

InitSymbols ==
    /\ dirFiles \in Directories
    /\ symbolTable = <<>>
    /\ parsedDir = FALSE
    /\ handlerSpecs = <<>>

\* analyzerCtx.parseDirectoryFiles(dirPath)
ParseDirectoryFiles ==
    /\ ~parsedDir
    /\ symbolTable' = parseDirectoryFiles(<<>>, dirFiles)
    /\ parsedDir' = TRUE
    /\ UNCHANGED <<dirFiles, handlerSpecs, cleaned>>
    /\ UNCHANGED <<resolverVars, securityVars, routeVars, assembleVars, registryVars, sharedVars>>

\* analyzerCtx.enhanceEndpoint(basicEndpoint) in the loop of
\* analyzeControllerFile.
EnhanceEndpoint(basic) ==
    /\ parsedDir
    /\ Len(handlerSpecs) < MaxRoutes
    /\ handlerSpecs' = Append(handlerSpecs,
                              [basic |-> basic, spec |-> enhanceEndpoint(SymbolContext, basic)])
    /\ UNCHANGED <<dirFiles, symbolTable, parsedDir, cleaned>>
    /\ UNCHANGED <<resolverVars, securityVars, routeVars, assembleVars, registryVars, sharedVars>>

NextSymbols ==
    \/ ParseDirectoryFiles
    \/ \E basic \in SymbolRoutes : EnhanceEndpoint(basic)

\* The declarations of the directory in the order they are collected.
InCollectionOrder == dirFiles[1] \o dirFiles[2]

\* The last collected declaration of the name.
LastDeclared(name) ==
    LET at == {i \in 1..Len(InCollectionOrder) : InCollectionOrder[i].name = name}
    IN  InCollectionOrder[CHOOSE i \in at : \A j \in at : j <= i].decl

\* C30: handlers are resolved by bare function name: the symbol table keeps
\* one declaration per name declared in the directory, the last collected, and
\* every endpoint naming a declared handler is enhanced from that declaration
\* and its receiver type.
C30_LastDeclarationWins ==
    parsedDir =>
        /\ DOMAIN symbolTable =
                {InCollectionOrder[i].name : i \in 1..Len(InCollectionOrder)}
        /\ \A name \in DOMAIN symbolTable : symbolTable[name] = LastDeclared(name)
        /\ \A k \in 1..Len(handlerSpecs) :
                handlerSpecs[k].basic.Handler \in DOMAIN symbolTable =>
                    /\ handlerSpecs[k].spec.HandlerFunction =
                            <<LastDeclared(handlerSpecs[k].basic.Handler)>>
                    /\ handlerSpecs[k].spec =
                            analyzedHandler(SymbolContext,
                                            basicSpec(SymbolContext, handlerSpecs[k].basic),
                                            LastDeclared(handlerSpecs[k].basic.Handler))

\* The List of feedController stands in the first file and the List of
\* orderController in the second: the endpoint naming List is enhanced from
\* the second, and not as it would be from the first.
C30_Witness ==
    /\ parsedDir
    /\ dirFiles = <<<<[name |-> <<"List">>, decl |-> FnListFeeds]>>,
                    <<[name |-> <<"List">>, decl |-> FnListOrders]>>>>
    /\ Len(handlerSpecs) = 1
    /\ handlerSpecs[1].basic.Handler = <<"List">>
    /\ handlerSpecs[1].spec.HandlerFunction = <<FnListOrders>>
    /\ handlerSpecs[1].spec.Parameters = <<>>
    /\ handlerSpecs[1].spec.Responses #
            analyzedHandler(SymbolContext, basicSpec(SymbolContext, handlerSpecs[1].basic),
                            FnListFeeds).Responses

----------------------------------------------------------------------------
(* Specifications.  Each one runs one part of the generator and leaves the *)
(* state of the other parts as constructed.                                *)

\* A TypeResolver and its clients.
StartResolver == InitResolver /\ IdleSecurity /\ IdleRoutes /\ IdleAssemble /\ IdleRegistry /\ IdleShared /\ IdleHelpers
SpecResolver == StartResolver /\ [][NextResolver]_vars

\* extractSecurity on the middleware chain of one route.
StartSecurity ==
    InitSecurity /\ models = <<>> /\ NewTypeResolver /\ IdleRoutes /\ IdleAssemble
    /\ IdleRegistry /\ IdleShared /\ IdleHelpers
SpecSecurity == StartSecurity /\ [][NextSecurity]_vars

\* parseControllerFile on one controller file.
StartRoutes ==
    InitRoutes /\ models = <<>> /\ NewTypeResolver /\ IdleSecurity /\ IdleAssemble
    /\ IdleRegistry /\ IdleShared /\ IdleHelpers
SpecRoutes == StartRoutes /\ [][NextRoutes]_vars

\* generateOpenAPISpec on the controller files of one directory.
StartAssemble ==
    InitAssemble /\ NewTypeResolver /\ IdleSecurity /\ IdleRoutes /\ IdleRegistry /\ IdleShared /\ IdleHelpers
SpecAssemble == StartAssemble /\ [][NextAssemble]_vars

\* The steps of generateOpenAPISpec by what they do to the position in it.
ScanReturns == phase = "scan" /\ phase' = "endpoints"
EndpointTaken ==
    /\ phase = "endpoints"
    /\ enhancedEndpoints # <<>>
    /\ enhancedEndpoints' = Tail(enhancedEndpoints)
LoopLeft ==
    /\ phase = "endpoints"
    /\ enhancedEndpoints = <<>>
    /\ phase' \in {"schemas", "crashed"}
SchemesFinalized == phase = "schemas" /\ phase' = "done"

\* generateOpenAPISpec runs on: the scan returns, the endpoints of a file are
\* added one after the other, the file loop is left when no file remains, and
\* the security schemes are finalized when the schemas are resolved.
SpecAssembleRuns ==
    /\ SpecAssemble
    /\ WF_phase(ScanReturns)
    /\ WF_enhancedEndpoints(EndpointTaken)
    /\ WF_phase(LoopLeft)
    /\ WF_phase(SchemesFinalized)

\* A BusinessLayerRegistry: the scan of the business layers, then lookups.
StartRegistry ==
    /\ NewBusinessLayerRegistry /\ IdleShared /\ IdleHelpers
    /\ models = <<>> /\ NewTypeResolver /\ IdleSecurity /\ IdleRoutes /\ IdleAssemble
SpecRegistry == StartRegistry /\ [][NextRegistry]_vars

\* LoadConfig in a directory with some config files.
StartConfig ==
    /\ IdleConfig /\ IdleFeatures /\ IdleRegistry /\ IdleHelpers
    /\ models = <<>> /\ NewTypeResolver /\ IdleSecurity /\ IdleRoutes /\ IdleAssemble
SpecConfig == StartConfig /\ [][NextConfig]_vars

\* ResolveFeatureDependencies on a features map; the loops of the function
\* run on until it returns.
StartFeatures ==
    /\ IdleFeatures /\ IdleConfig /\ IdleRegistry /\ IdleHelpers
    /\ models = <<>> /\ NewTypeResolver /\ IdleSecurity /\ IdleRoutes /\ IdleAssemble
SpecFeatures ==
    /\ StartFeatures /\ [][NextFeatures]_vars
    /\ WF_vars(\E feature \in DOMAIN dependencies : RangeStep(feature))
    /\ WF_vars(EndPass)

\* cleanTypeName of the resolver and of the analyzer on decorated type names.
StartClean ==
    /\ NoCleanCall /\ IdleSymbols /\ IdleShared /\ IdleRegistry
    /\ models = <<>> /\ NewTypeResolver /\ IdleSecurity /\ IdleRoutes /\ IdleAssemble
SpecClean == StartClean /\ [][NextClean]_vars

\* analyzeControllerFile on a controller directory: parseDirectoryFiles, then
\* enhanceEndpoint on each raw endpoint.
StartSymbols ==
    /\ InitSymbols /\ NoCleanCall /\ IdleShared /\ IdleRegistry
    /\ models = <<>> /\ NewTypeResolver /\ IdleSecurity /\ IdleRoutes /\ IdleAssemble
SpecSymbols == StartSymbols /\ [][NextSymbols]_vars

====
